---------------------------- MODULE Spec2Model ----------------------------
(***************************************************************************)
(* A model of the analytics and auto-learning pipeline of AURELIUS:        *)
(* the log store (src/db/redis_client.py), the three metric reducers and   *)
(* the report composer (src/analytics.py) and the learning cycle           *)
(* (src/auto_learning.py).                                                 *)
(*                                                                         *)
(* Strings of the program (type tags, keys, insight texts) are TLA+        *)
(* strings; Python's `sub in s` is Contains(sub, s).  A timestamp string   *)
(* is modelled by what datetime.fromisoformat makes of it: a naive         *)
(* datetime, an offset-aware datetime ("Z" or "+00:00" suffix) or a        *)
(* ValueError.  A JSON payload is modelled by what json.loads makes of it: *)
(* an object, a value that is no object, or a JSONDecodeError.             *)
(***************************************************************************)
EXTENDS Integers, Sequences, FiniteSets, TLC

VARIABLES
    now,        \* datetime.utcnow(), in ticks since the epoch of the model
    hashes,     \* the store's hashes: key -> record (hset / hgetall)
    lists,      \* the store's lists: list name -> sequence of keys (lpush / lrange)
    kv,         \* the store's scalar cells: key -> document (set / get)
    dbready,    \* Analytics.db / LearningModule.db is set (initialize() ran)
    scan,       \* the last reducer call: its name, arguments and result
    call,       \* the last call of a helper: its name, argument and result
    tasks,      \* the calls that run interleaved: task -> its position and locals
    wire,       \* the posts the platform accepted: the clock hour of each
    apc,        \* generate_report: position of the running call
    aperiod,    \* generate_report: the period argument
    awork,      \* generate_report: its locals between two suspension points
    areport,    \* generate_report: the report under construction
    aresult,    \* generate_report: what the last call returned
    lpc,        \* run_learning_cycle: position of the running call
    lmem,       \* LearningModule.learning_patterns (in memory)
    lwork,      \* run_learning_cycle: analysis_results and insights so far
    lresult     \* run_learning_cycle: what the last call returned

vars == <<now, hashes, lists, kv, dbready, scan, call, tasks, wire, apc, aperiod,
          awork, areport, aresult, lpc, lmem, lwork, lresult>>

storeVars == <<hashes, lists, kv>>
reportVars == <<apc, aperiod, awork, areport, aresult>>
learnVars == <<lpc, lmem, lwork, lresult>>
taskVars == <<tasks, wire>>

-----------------------------------------------------------------------------
(* Bounds of the model *)

\* the longest index list a scan specification starts from
MaxScan == 3
\* the number of records the writers may append in a report specification
MaxAppend == 2
\* the clock stops advancing here
MaxNow == 2
\* the number of run_learning_cycle calls of a behaviour
MaxCycles == 2
\* the longest index list a learning specification starts from
MaxLearn == 2
\* the number of generate_report calls of a behaviour
MaxReports == 1
\* the number of steps of one generate_report call the store may be down for
MaxOutages == 1
\* the number of times the program is started again
MaxRestarts == 1

-----------------------------------------------------------------------------
(* Strings and sequences *)

\* Python: sub in s
Contains(sub, s) ==
    \E i \in 1..(Len(s) - Len(sub) + 1) : SubSeq(s, i, i + Len(sub) - 1) = sub

RECURSIVE SumSeq(_)
SumSeq(s) == IF s = <<>> THEN 0 ELSE Head(s) + SumSeq(Tail(s))

SeqsUpTo(S, n) == UNION {[1..k -> S] : k \in 0..n}

Range(s) == {s[i] : i \in DOMAIN s}

\* a / b * 100 of the code, kept exact as the fraction (100 a) / b
Percent(a, b) == [num |-> 100 * a, den |-> b]
ZeroRate == [num |-> 0, den |-> 1]

-----------------------------------------------------------------------------
(* Time.  A datetime is a number of ticks since 2024-01-01T00:00:00, a     *)
(* Monday; one day is TicksPerDay ticks.                                   *)

TicksPerDay == 2
DaysPerWeek == 7

IsLeap(year) == year % 4 = 0 /\ (year % 100 # 0 \/ year % 400 = 0)

DaysInMonth(year, month) ==
    IF month = 2 THEN (IF IsLeap(year) THEN 29 ELSE 28)
    ELSE IF month \in {4, 6, 9, 11} THEN 30 ELSE 31

DaysInYear(year) == IF IsLeap(year) THEN 366 ELSE 365

\* the calendar date of day number n, counted from [year, month, 1] = day 0
RECURSIVE DateFrom(_, _, _)
DateFrom(year, month, n) ==
    IF n >= DaysInMonth(year, month)
    THEN IF month = 12
         THEN DateFrom(year + 1, 1, n - DaysInMonth(year, month))
         ELSE DateFrom(year, month + 1, n - DaysInMonth(year, month))
    ELSE [year |-> year, month |-> month, day |-> n + 1]

DateOf(dayno) == DateFrom(2024, 1, dayno)

\* the day number of a calendar date
RECURSIVE DaysBefore(_, _)
DaysBefore(year, month) ==
    IF year = 2024 /\ month = 1 THEN 0
    ELSE IF month = 1 THEN DaysBefore(year - 1, 12) + DaysInMonth(year - 1, 12)
    ELSE DaysBefore(year, month - 1) + DaysInMonth(year, month - 1)

DayNumber(date) == DaysBefore(date.year, date.month) + date.day - 1

\* weekday() counted from Sunday
WeekdayFromSunday(dayno) == (dayno + 1) % DaysPerWeek

\* datetime.weekday(): Monday is 0
weekday(dayno) == dayno % DaysPerWeek

Periods == {"daily", "weekly", "monthly", "hourly"}

\* _get_date_range with every month taken as 30 days long
RangeOfThirtyDays(period, t) ==
    LET today == t \div TicksPerDay
        midnight == today * TicksPerDay
        first == DayNumber([DateOf(today) EXCEPT !.day = 1])
    IN  CASE period = "weekly" ->
               <<(today - weekday(today)) * TicksPerDay,
                 (today - weekday(today) + DaysPerWeek) * TicksPerDay>>
          [] period = "monthly" ->
               <<first * TicksPerDay, (first + 30) * TicksPerDay>>
          [] OTHER -> <<midnight, midnight + TicksPerDay>>

\* _get_date_range with an empty range for a period it does not know
RangeOfKnownPeriods(period, t) ==
    LET today == t \div TicksPerDay
        midnight == today * TicksPerDay
        first == [DateOf(today) EXCEPT !.day = 1]
        next == IF first.month = 12
                THEN [first EXCEPT !.year = @ + 1, !.month = 1]
                ELSE [first EXCEPT !.month = @ + 1]
    IN  CASE period = "daily" -> <<midnight, midnight + TicksPerDay>>
          [] period = "weekly" ->
               <<(today - weekday(today)) * TicksPerDay,
                 (today - weekday(today) + DaysPerWeek) * TicksPerDay>>
          [] period = "monthly" ->
               <<DayNumber(first) * TicksPerDay, DayNumber(next) * TicksPerDay>>
          [] OTHER -> <<midnight, midnight>>

\* Analytics._get_date_range with now as an argument: <<start_date, end_date>>
_get_date_range(period, t) ==
    LET today == t \div TicksPerDay
        midnight == today * TicksPerDay
        date == DateOf(today)
    IN  CASE period = "daily" ->
               <<midnight, midnight + TicksPerDay>>
          [] period = "weekly" ->
               LET days_since_monday == weekday(today)
                   start_date == (today - days_since_monday) * TicksPerDay
               IN  <<start_date, start_date + DaysPerWeek * TicksPerDay>>
          [] period = "monthly" ->
               LET first == [date EXCEPT !.day = 1]
                   next == IF date.month = 12
                           THEN [first EXCEPT !.year = date.year + 1, !.month = 1]
                           ELSE [first EXCEPT !.month = date.month + 1]
               IN  <<DayNumber(first) * TicksPerDay, DayNumber(next) * TicksPerDay>>
          [] OTHER ->
               <<midnight, midnight + TicksPerDay>>

-----------------------------------------------------------------------------
(* Records of the store.  A hash holds the fields type, timestamp, data and *)
(* (sales interactions) customer_id; a field the hash lacks reads as "" with *)
(* .get(field, "").                                                        *)

Platforms == <<"twitter", "mastodon", "discord">>

\* a timestamp field: what the string is to datetime.fromisoformat
\*   "naive"  an ISO time without offset, as datetime.utcnow().isoformat() writes it
\*   "aware"  an ISO time with a "Z" or "+00:00" suffix
\*   "bad"    no ISO time
\*   "none"   the hash has no timestamp field
TS(kind, t) == [kind |-> kind, t |-> t]
NoTimestamp == TS("none", 0)

\* an amount of a payment payload: a number, a text that is no number, null
\* (PayPalClient logs amount.get("value") of a capture), or absent
Amount(n) == [kind |-> "num", v |-> n]
TextAmount == [kind |-> "text", v |-> 0]
NullAmount == [kind |-> "null", v |-> 0]
NoAmount == [kind |-> "absent", v |-> 0]

Absent == "<absent>"
\* JSON null as the value of a payload field
Null == "<null>"

\* a data field: what the string is to json.loads
\*   "object"     a JSON object with the fields below (Absent: no such key)
\*   "array"      valid JSON that is no object
\*   "malformed"  no JSON
\*   "absent"     the hash has no data field
Payload(kind, amount, platform, content, response) ==
    [kind |-> kind, amount |-> amount, platform |-> platform,
     content |-> content, response |-> response]
EmptyObject == Payload("object", NoAmount, Absent, Absent, Absent)
Malformed == Payload("malformed", NoAmount, Absent, Absent, Absent)
ArrayJson == Payload("array", NoAmount, Absent, Absent, Absent)
NoData == Payload("absent", NoAmount, Absent, Absent, Absent)
Content(c) == Payload("object", NoAmount, Absent, c, Absent)
Paid(n) == Payload("object", Amount(n), Absent, Absent, Absent)
From(p) == Payload("object", NoAmount, p, Absent, Absent)

Rec(type, ts, data, customer_id) ==
    [type |-> type, timestamp |-> ts, data |-> data, customer_id |-> customer_id]

\* hgetall of a key that holds no hash: {}
EmptyHash == Rec("", NoTimestamp, NoData, "")

\* DatabaseClient.hgetall
hgetall(H, key) == IF key \in DOMAIN H THEN H[key] ELSE EmptyHash

\* DatabaseClient.lrange(name, 0, -1)
lrange(L, name) == IF name \in DOMAIN L THEN L[name] ELSE <<>>

\* `interaction and "timestamp" in interaction`
HasTimestamp(r) == r.timestamp.kind # "none"

\* datetime.fromisoformat(ts.replace("Z", "+00:00")):
\* the datetime, whether it carries an offset, or ValueError
fromisoformat(ts) ==
    CASE ts.kind = "naive" -> [error |-> "none", aware |-> FALSE, t |-> ts.t]
      [] ts.kind = "aware" -> [error |-> "none", aware |-> TRUE, t |-> ts.t]
      [] OTHER -> [error |-> "ValueError", aware |-> FALSE, t |-> 0]

\* InPeriod with the end of the period included
InPeriodClosed(start_date, time, end_date) ==
    IF time.aware THEN "TypeError"
    ELSE IF start_date <= time.t /\ time.t <= end_date THEN "in" ELSE "out"

\* start_date <= time < end_date with start_date and end_date naive: comparing
\* them with an offset-aware datetime raises TypeError
InPeriod(start_date, time, end_date) ==
    IF time.aware THEN "TypeError"
    ELSE IF start_date <= time.t /\ time.t < end_date THEN "in" ELSE "out"

\* json.loads(record.get("data", "{}")): the value or JSONDecodeError
json_loads(data) ==
    CASE data.kind = "malformed" -> [error |-> "JSONDecodeError", value |-> EmptyObject]
      [] data.kind = "absent" -> [error |-> "none", value |-> EmptyObject]
      [] OTHER -> [error |-> "none", value |-> data]

\* data.get(...) of a decoded value that is no dict raises AttributeError
IsDict(value) == value.kind = "object"

-----------------------------------------------------------------------------
(* Analytics._get_interactions_in_period *)

\* one pass of the loop body for `key`: the scan so far is
\* [items, warnings, raised]; warnings lists the keys logger.warning named
InteractionStep(H, key, start_date, end_date, acc) ==
    LET interaction == hgetall(H, key)
        time == fromisoformat(interaction.timestamp)
        where == InPeriod(start_date, time, end_date)
        data == json_loads(interaction.data)
    IN  IF ~HasTimestamp(interaction) THEN acc
        ELSE IF time.error # "none"
             THEN [acc EXCEPT !.warnings = Append(@, key)]
        ELSE IF where = "TypeError"
             THEN [acc EXCEPT !.raised = TRUE]
        ELSE IF where = "out" THEN acc
        ELSE IF data.error # "none"
             THEN [acc EXCEPT !.warnings = Append(@, key)]
        ELSE [acc EXCEPT !.items =
                  Append(@, [key |-> key, type |-> interaction.type,
                             data |-> data.value])]

RECURSIVE InteractionLoop(_, _, _, _, _, _)
InteractionLoop(H, keys, i, start_date, end_date, acc) ==
    IF i > Len(keys) \/ acc.raised THEN acc
    ELSE InteractionLoop(H, keys, i + 1, start_date, end_date,
                         InteractionStep(H, keys[i], start_date, end_date, acc))

\* the result: value is the returned list, failed that the outer handler
\* returned [] (logger.error), warnings the keys warned about
_get_interactions_in_period(ready, H, L, platform, start_date, end_date) ==
    LET acc == InteractionLoop(H, lrange(L, "interactions:" \o platform), 1,
                               start_date, end_date,
                               [items |-> <<>>, warnings |-> <<>>, raised |-> FALSE])
    IN  IF ~ready THEN [value |-> <<>>, failed |-> TRUE, warnings |-> <<>>]
        ELSE IF acc.raised
             THEN [value |-> <<>>, failed |-> TRUE, warnings |-> acc.warnings]
        ELSE [value |-> acc.items, failed |-> FALSE, warnings |-> acc.warnings]

-----------------------------------------------------------------------------
(* Dictionaries that may be empty: a reducer returns {} from its outer      *)
(* handler, and its caller reads the fields with .get(field, default).     *)

Get(d, field, default) == IF d.empty THEN default ELSE d[field]

\* float(event_data.get("amount", 0)): the number, ValueError for a text that
\* is no number, TypeError for None
float(amount) ==
    CASE amount.kind = "num" -> [error |-> "none", v |-> amount.v]
      [] amount.kind = "absent" -> [error |-> "none", v |-> 0]
      [] amount.kind = "null" -> [error |-> "TypeError", v |-> 0]
      [] OTHER -> [error |-> "ValueError", v |-> 0]

-----------------------------------------------------------------------------
(* Analytics._get_sales_data_in_period *)

NewSalesData ==
    [empty |-> FALSE, total_sales |-> 0, total_revenue |-> 0, total_refunds |-> 0,
     refund_amount |-> 0, orders_created |-> 0, orders_completed |-> 0,
     conversion_events |-> <<>>, net_revenue |-> 0, conversion_rate |-> ZeroRate]

\* {}
EmptySalesData == [NewSalesData EXCEPT !.empty = TRUE]

\* the branches of the loop body for an event in the period that decoded
SalesCount(event, event_data, key, acc) ==
    LET amount == float(event_data.amount)
        sales_data == acc.sales_data
    IN  IF Contains("payment_completed", event.type)
        THEN LET counted == [sales_data EXCEPT !.total_sales = @ + 1]
             IN  IF ~IsDict(event_data)
                 THEN [acc EXCEPT !.raised = TRUE]
                 ELSE IF amount.error = "TypeError"
                 THEN [acc EXCEPT !.raised = TRUE]
                 ELSE IF amount.error # "none"
                 THEN [acc EXCEPT !.sales_data = counted,
                                  !.warnings = Append(@, key)]
                 ELSE [acc EXCEPT !.sales_data =
                          [counted EXCEPT
                             !.total_revenue = @ + amount.v,
                             !.conversion_events =
                                 Append(@, [type |-> "sale_completed",
                                            amount |-> amount.v,
                                            timestamp |-> event.timestamp])]]
        ELSE IF Contains("order_created", event.type)
        THEN [acc EXCEPT !.sales_data.orders_created = @ + 1]
        ELSE IF Contains("payment_refunded", event.type)
        THEN LET counted == [sales_data EXCEPT !.total_refunds = @ + 1]
             IN  IF ~IsDict(event_data)
                 THEN [acc EXCEPT !.raised = TRUE]
                 ELSE IF amount.error = "TypeError"
                 THEN [acc EXCEPT !.raised = TRUE]
                 ELSE IF amount.error # "none"
                 THEN [acc EXCEPT !.sales_data = counted,
                                  !.warnings = Append(@, key)]
                 ELSE [acc EXCEPT !.sales_data =
                          [counted EXCEPT !.refund_amount = @ + amount.v]]
        ELSE acc

\* SalesStep without the handler of the loop body: ValueError and
\* JSONDecodeError reach the outer handler
SalesStepAbort(H, key, start_date, end_date, acc) ==
    LET event == hgetall(H, key)
        event_time == fromisoformat(event.timestamp)
        where == InPeriod(start_date, event_time, end_date)
        event_data == json_loads(event.data)
    IN  IF ~HasTimestamp(event) THEN acc
        ELSE IF event_time.error # "none" \/ where = "TypeError"
             THEN [acc EXCEPT !.raised = TRUE]
        ELSE IF where = "out" THEN acc
        ELSE IF event_data.error # "none"
             THEN [acc EXCEPT !.raised = TRUE]
        ELSE SalesCount(event, event_data, key, acc)

\* one pass of the loop body for `key`
SalesStep(H, key, start_date, end_date, acc) ==
    LET event == hgetall(H, key)
        event_time == fromisoformat(event.timestamp)
        where == InPeriod(start_date, event_time, end_date)
        event_data == json_loads(event.data)
    IN  IF ~HasTimestamp(event) THEN acc
        ELSE IF event_time.error # "none"
             THEN [acc EXCEPT !.warnings = Append(@, key)]
        ELSE IF where = "TypeError"
             THEN [acc EXCEPT !.raised = TRUE]
        ELSE IF where = "out" THEN acc
        ELSE IF event_data.error # "none"
             THEN [acc EXCEPT !.warnings = Append(@, key)]
        ELSE SalesCount(event, event_data.value, key, acc)

RECURSIVE SalesLoop(_, _, _, _, _, _)
SalesLoop(H, keys, i, start_date, end_date, acc) ==
    IF i > Len(keys) \/ acc.raised THEN acc
    ELSE SalesLoop(H, keys, i + 1, start_date, end_date,
                   SalesStep(H, keys[i], start_date, end_date, acc))

\* SalesTotals with the refunds added to the revenue
SalesTotalsGross(sales_data) ==
    [sales_data EXCEPT
        !.net_revenue = sales_data.total_revenue + sales_data.refund_amount,
        !.conversion_rate =
            IF sales_data.orders_created > 0
            THEN Percent(sales_data.total_sales, sales_data.orders_created)
            ELSE ZeroRate]

\* net_revenue and conversion_rate, after the loop
SalesTotals(sales_data) ==
    [sales_data EXCEPT
        !.net_revenue = sales_data.total_revenue - sales_data.refund_amount,
        !.conversion_rate =
            IF sales_data.orders_created > 0
            THEN Percent(sales_data.total_sales, sales_data.orders_created)
            ELSE ZeroRate]

\* the result: value is the returned dict ({} from the outer handler),
\* warnings the keys warned about
_get_sales_data_in_period(ready, H, L, start_date, end_date) ==
    LET acc == SalesLoop(H, lrange(L, "payment_events:paypal"), 1,
                         start_date, end_date,
                         [sales_data |-> NewSalesData, warnings |-> <<>>,
                          raised |-> FALSE])
    IN  IF ~ready THEN [value |-> EmptySalesData, warnings |-> <<>>]
        ELSE IF acc.raised
             THEN [value |-> EmptySalesData, warnings |-> acc.warnings]
        ELSE [value |-> SalesTotals(acc.sales_data), warnings |-> acc.warnings]

-----------------------------------------------------------------------------
(* Analytics._get_engagement_metrics *)

\* sorted(items, key=count, reverse=True): a stable sort, so items with equal
\* counts keep their order
SortByCountDesc(items) ==
    LET n == Len(items)
        rank(i) == Cardinality({j \in 1..n : items[j].count > items[i].count})
                   + Cardinality({j \in 1..(i - 1) : items[j].count = items[i].count})
                   + 1
    IN  [r \in 1..n |-> items[CHOOSE i \in 1..n : rank(i) = r]]

ContentSnippetLen == 50
TopContent == 5

\* content[:50] + "..." if len(content) > 50 else content
ContentKey(content) ==
    IF Len(content) > ContentSnippetLen
    THEN SubSeq(content, 1, ContentSnippetLen) \o "..."
    ELSE content

\* content_performance[content_key] += 1, the dict kept in insertion order
Tally(counts, k) ==
    IF \E i \in DOMAIN counts : counts[i].content = k
    THEN [i \in DOMAIN counts |->
             IF counts[i].content = k
             THEN [counts[i] EXCEPT !.count = @ + 1] ELSE counts[i]]
    ELSE Append(counts, [content |-> k, count |-> 1])

\* the if / elif chain that counts an interaction by its type tag
CountInteraction(interaction_type, metrics) ==
    IF \/ Contains("post", interaction_type)
       \/ Contains("tweet", interaction_type)
       \/ Contains("status", interaction_type)
    THEN [metrics EXCEPT !.posts_created = @ + 1]
    ELSE IF Contains("reply", interaction_type)
    THEN [metrics EXCEPT !.replies_sent = @ + 1]
    ELSE IF Contains("mention", interaction_type)
    THEN [metrics EXCEPT !.mentions_received = @ + 1]
    ELSE IF Contains("like", interaction_type) \/ Contains("favourite", interaction_type)
    THEN [metrics EXCEPT !.likes_given = @ + 1]
    ELSE IF Contains("boost", interaction_type) \/ Contains("retweet", interaction_type)
    THEN [metrics EXCEPT !.shares_made = @ + 1]
    ELSE metrics

NewMetrics(n) ==
    [empty |-> FALSE, total_interactions |-> n, posts_created |-> 0,
     replies_sent |-> 0, mentions_received |-> 0, likes_given |-> 0,
     shares_made |-> 0, engagement_rate |-> ZeroRate,
     top_performing_content |-> <<>>]

\* {}
EmptyMetrics == [NewMetrics(0) EXCEPT !.empty = TRUE]

EngagementStep(interaction, acc) ==
    LET counted == CountInteraction(interaction.type, acc.metrics)
        content == interaction.data.content
    IN  IF ~IsDict(interaction.data)
        THEN [acc EXCEPT !.raised = TRUE]
        ELSE IF content \notin {Absent, Null, ""}
        THEN [acc EXCEPT !.metrics = counted,
                         !.content_performance = Tally(@, ContentKey(content))]
        ELSE [acc EXCEPT !.metrics = counted]

RECURSIVE EngagementLoop(_, _, _)
EngagementLoop(interactions, i, acc) ==
    IF i > Len(interactions) \/ acc.raised THEN acc
    ELSE EngagementLoop(interactions, i + 1, EngagementStep(interactions[i], acc))

\* EngagementTotals with a rate also when no post was created
EngagementTotalsUnguarded(metrics, content_performance) ==
    LET ranked == SortByCountDesc(content_performance)
        total_engagements ==
            metrics.replies_sent + metrics.likes_given + metrics.shares_made
    IN  [metrics EXCEPT
            !.engagement_rate =
                Percent(total_engagements,
                        IF metrics.posts_created > 0 THEN metrics.posts_created ELSE 1),
            !.top_performing_content =
                SubSeq(ranked, 1, IF Len(ranked) < TopContent
                                  THEN Len(ranked) ELSE TopContent)]

\* engagement_rate and top_performing_content, after the loop
EngagementTotals(metrics, content_performance) ==
    LET ranked == SortByCountDesc(content_performance)
        total_engagements ==
            metrics.replies_sent + metrics.likes_given + metrics.shares_made
    IN  [metrics EXCEPT
            !.engagement_rate =
                IF metrics.posts_created > 0
                THEN Percent(total_engagements, metrics.posts_created)
                ELSE ZeroRate,
            !.top_performing_content =
                SubSeq(ranked, 1, IF Len(ranked) < TopContent
                                  THEN Len(ranked) ELSE TopContent)]

_get_engagement_metrics(platform, interactions) ==
    LET acc == EngagementLoop(interactions, 1,
                              [metrics |-> NewMetrics(Len(interactions)),
                               content_performance |-> <<>>, raised |-> FALSE])
    IN  IF acc.raised THEN EmptyMetrics
        ELSE EngagementTotals(acc.metrics, acc.content_performance)

-----------------------------------------------------------------------------
(* Analytics._get_lead_metrics *)

\* lead_sources[platform] += 1: the dict as the sequence of its items
TallySource(sources, p) ==
    IF \E i \in DOMAIN sources : sources[i].platform = p
    THEN [i \in DOMAIN sources |->
             IF sources[i].platform = p
             THEN [sources[i] EXCEPT !.count = @ + 1] ELSE sources[i]]
    ELSE Append(sources, [platform |-> p, count |-> 1])

NewLeadMetrics ==
    [empty |-> FALSE, total_leads |-> 0, new_customers |-> 0, qualified_leads |-> 0,
     conversion_rate |-> ZeroRate, lead_sources |-> <<>>,
     lead_quality_score |-> ZeroRate]

\* {}
EmptyLeadMetrics == [NewLeadMetrics EXCEPT !.empty = TRUE]

NoLeadScan ==
    [unique_customers |-> {}, qualified_leads |-> 0, lead_sources |-> <<>>,
     warnings |-> <<>>, raised |-> FALSE]

\* the loop body for an interaction in the period that names a customer
LeadCount(L, interaction, key, acc) ==
    LET customer_id == interaction.customer_id
        customer_interactions == lrange(L, "customer_interactions:" \o customer_id)
        added == [acc EXCEPT
                     !.unique_customers = @ \cup {customer_id},
                     !.qualified_leads =
                         IF Len(customer_interactions) > 1 THEN @ + 1 ELSE @]
        data == json_loads(interaction.data)
        platform == IF data.value.platform = Absent
                    THEN "unknown" ELSE data.value.platform
    IN  IF data.error # "none"
        THEN [added EXCEPT !.warnings = Append(@, key)]
        ELSE IF ~IsDict(data.value)
        THEN [added EXCEPT !.raised = TRUE]
        ELSE [added EXCEPT !.lead_sources = TallySource(@, platform)]

LeadStep(H, L, key, start_date, end_date, acc) ==
    LET interaction == hgetall(H, key)
        interaction_time == fromisoformat(interaction.timestamp)
        where == InPeriod(start_date, interaction_time, end_date)
    IN  IF ~HasTimestamp(interaction) THEN acc
        ELSE IF interaction_time.error # "none"
             THEN [acc EXCEPT !.warnings = Append(@, key)]
        ELSE IF where = "TypeError"
             THEN [acc EXCEPT !.raised = TRUE]
        ELSE IF where = "out" THEN acc
        ELSE IF interaction.customer_id = "" THEN acc
        ELSE LeadCount(L, interaction, key, acc)

RECURSIVE LeadLoop(_, _, _, _, _, _, _)
LeadLoop(H, L, keys, i, start_date, end_date, acc) ==
    IF i > Len(keys) \/ acc.raised THEN acc
    ELSE LeadLoop(H, L, keys, i + 1, start_date, end_date,
                  LeadStep(H, L, keys[i], start_date, end_date, acc))

\* the metrics after the loop; sales_data is the result of the second scan of
\* the payment events, made only when there are leads
LeadTotals(acc, sales_data) ==
    LET total_leads == Cardinality(acc.unique_customers)
    IN  [NewLeadMetrics EXCEPT
            !.total_leads = total_leads,
            !.new_customers = total_leads,
            !.qualified_leads = acc.qualified_leads,
            !.conversion_rate =
                IF total_leads > 0
                THEN Percent(Get(sales_data, "total_sales", 0), total_leads)
                ELSE ZeroRate,
            !.lead_quality_score =
                IF total_leads > 0
                THEN Percent(acc.qualified_leads, total_leads)
                ELSE ZeroRate,
            !.lead_sources = acc.lead_sources]

\* the result: value is the returned dict ({} from the outer handler),
\* warnings the sales-interaction keys warned about, sales_warnings the
\* warnings of the second scan of the payment events
_get_lead_metrics(ready, H, L, start_date, end_date) ==
    LET acc == LeadLoop(H, L, lrange(L, "sales_interactions"), 1,
                        start_date, end_date,
                        NoLeadScan)
        rescan == Cardinality(acc.unique_customers) > 0
        sales == _get_sales_data_in_period(ready, H, L, start_date, end_date)
    IN  IF ~ready
        THEN [value |-> EmptyLeadMetrics, warnings |-> <<>>, sales_warnings |-> <<>>]
        ELSE IF acc.raised
        THEN [value |-> EmptyLeadMetrics, warnings |-> acc.warnings,
              sales_warnings |-> <<>>]
        ELSE [value |-> LeadTotals(acc, sales.value), warnings |-> acc.warnings,
              sales_warnings |-> IF rescan THEN sales.warnings ELSE <<>>]

-----------------------------------------------------------------------------
(* Formatting *)

RECURSIVE Pow10(_)
Pow10(n) == IF n = 0 THEN 1 ELSE 10 * Pow10(n - 1)

\* f"{n:0{width}d}"
RECURSIVE Pad(_, _)
Pad(text, width) == IF Len(text) >= width THEN text ELSE Pad("0" \o text, width)

\* f"{num / den:.{digits}f}" for num >= 0: the quotient rounded to `digits`
\* decimals, a tie going to the even digit
Fixed(num, den, digits) ==
    LET scaled == num * Pow10(digits)
        q == scaled \div den
        r == scaled % den
        rounded == IF 2 * r > den \/ (2 * r = den /\ q % 2 = 1) THEN q + 1 ELSE q
    IN  ToString(rounded \div Pow10(digits)) \o "."
        \o Pad(ToString(rounded % Pow10(digits)), digits)

\* datetime.strftime('%Y-%m-%d') of the day a datetime falls on
strftime(t) ==
    LET date == DateOf(t \div TicksPerDay)
    IN  ToString(date.year) \o "-" \o Pad(ToString(date.month), 2)
        \o "-" \o Pad(ToString(date.day), 2)

\* str.title() of a platform name
title(platform) ==
    CASE platform = "twitter" -> "Twitter"
      [] platform = "mastodon" -> "Mastodon"
      [] OTHER -> "Discord"

-----------------------------------------------------------------------------
(* Text *)

Min(S) == CHOOSE i \in S : \A j \in S : i <= j

Take(s, n) == SubSeq(s, 1, IF Len(s) < n THEN Len(s) ELSE n)

\* str.split(sep)
RECURSIVE Split(_, _)
Split(s, sep) ==
    LET n == Len(sep)
        hits == {i \in 1..(Len(s) - n + 1) : SubSeq(s, i, i + n - 1) = sep}
    IN  IF hits = {} THEN <<s>>
        ELSE <<SubSeq(s, 1, Min(hits) - 1)>>
             \o Split(SubSeq(s, Min(hits) + n, Len(s)), sep)

\* str.split(): the words between runs of blanks
split(s) == SelectSeq(Split(s, " "), LAMBDA word : word # "")

Last(s) == s[Len(s)]

\* sep.join(parts)
RECURSIVE Join(_, _)
Join(parts, sep) ==
    IF parts = <<>> THEN ""
    ELSE IF Len(parts) = 1 THEN parts[1]
    ELSE parts[1] \o sep \o Join(Tail(parts), sep)

UpperCase == "ABCDEFGHIJKLMNOPQRSTUVWXYZ"
LowerCase == "abcdefghijklmnopqrstuvwxyz"

LowerChar(c) ==
    IF \E i \in 1..Len(UpperCase) : SubSeq(UpperCase, i, i) = c
    THEN LET i == CHOOSE i \in 1..Len(UpperCase) : SubSeq(UpperCase, i, i) = c
         IN  SubSeq(LowerCase, i, i)
    ELSE c

\* str.lower()
RECURSIVE lower(_)
lower(s) ==
    IF s = "" THEN ""
    ELSE LowerChar(SubSeq(s, 1, 1)) \o lower(SubSeq(s, 2, Len(s)))

\* str.isalpha()
isalpha(s) ==
    /\ s # ""
    /\ \A k \in 1..Len(s) :
          \E i \in 1..Len(LowerCase) :
              SubSeq(s, k, k) \in {SubSeq(UpperCase, i, i), SubSeq(LowerCase, i, i)}

\* any(word in text for word in words)
ContainsAny(words, text) == \E word \in words : Contains(word, text)

\* str(data) of a decoded payload
str(data) ==
    LET amount == CASE data.amount.kind = "num" -> ToString(data.amount.v)
                    [] data.amount.kind = "null" -> "None"
                    [] OTHER -> "'n/a'"
        text(v) == IF v = Null THEN "None" ELSE "'" \o v \o "'"
        items ==
            (IF data.amount.kind = "absent" THEN <<>>
             ELSE <<"'amount': " \o amount>>)
            \o (IF data.platform = Absent THEN <<>>
                ELSE <<"'platform': " \o text(data.platform)>>)
            \o (IF data.content = Absent THEN <<>>
                ELSE <<"'content': " \o text(data.content)>>)
            \o (IF data.response = Absent THEN <<>>
                ELSE <<"'response': " \o text(data.response)>>)
    IN  IF data.kind = "array" THEN "[]" ELSE "{" \o Join(items, ", ") \o "}"

-----------------------------------------------------------------------------
(* Dictionaries of lists, as the sequence of their items in insertion      *)
(* order; of a list only the sum and the length are kept                   *)

\* d[k].append(v), or d[k] += v of a counter
Accumulate(items, k, v) ==
    IF \E i \in DOMAIN items : items[i].key = k
    THEN [i \in DOMAIN items |->
             IF items[i].key = k
             THEN [items[i] EXCEPT !.sum = @ + v, !.n = @ + 1] ELSE items[i]]
    ELSE Append(items, [key |-> k, sum |-> v, n |-> 1])

\* sorted(averages.items(), key=lambda x: x[1], reverse=True) where the
\* average of an item is sum / n: a stable sort
SortByAverageDesc(items) ==
    LET n == Len(items)
        more(j, i) == items[j].sum * items[i].n > items[i].sum * items[j].n
        same(j, i) == items[j].sum * items[i].n = items[i].sum * items[j].n
        rank(i) == Cardinality({j \in 1..n : more(j, i)})
                   + Cardinality({j \in 1..(i - 1) : same(j, i)}) + 1
    IN  [r \in 1..n |-> items[CHOOSE i \in 1..n : rank(i) = r]]

\* sorted(numbers)
SortAsc(numbers) ==
    LET n == Len(numbers)
        rank(i) == Cardinality({j \in 1..n : numbers[j] < numbers[i]})
                   + Cardinality({j \in 1..(i - 1) : numbers[j] = numbers[i]}) + 1
    IN  [r \in 1..n |-> numbers[CHOOSE i \in 1..n : rank(i) = r]]

Keys(items) == [i \in DOMAIN items |-> items[i].key]
Averages(items) ==
    [i \in DOMAIN items |-> [key |-> items[i].key, num |-> items[i].sum,
                             den |-> items[i].n]]

\* the elements of xs, each once, in the order of their first occurrence
RECURSIVE Unique(_)
Unique(xs) ==
    IF xs = <<>> THEN <<>>
    ELSE LET rest == Unique(SubSeq(xs, 1, Len(xs) - 1))
         IN  IF Last(xs) \in Range(rest) THEN rest ELSE Append(rest, Last(xs))

Reverse(xs) == [i \in DOMAIN xs |-> xs[Len(xs) + 1 - i]]

\* list(set(xs)): the order of a set of strings follows their hashes, which
\* the interpreter draws a seed for when the process starts; two of the
\* orders a seed can give
SetOrder(xs, seed) == IF seed = 0 THEN Unique(xs) ELSE Reverse(Unique(xs))

-----------------------------------------------------------------------------
(* LearningModule: content analysis *)

\* _categorize_content with the question rule tried before the educational one
CategorizeQuestionFirst(content) ==
    LET content_lower == lower(content)
    IN  IF ContainsAny({"buy", "purchase", "sale", "offer", "discount"}, content_lower)
        THEN "promotional"
        ELSE IF ContainsAny({"?", "question", "ask", "help"}, content_lower)
        THEN "question"
        ELSE IF ContainsAny({"how", "why", "what", "guide", "tip"}, content_lower)
        THEN "educational"
        ELSE IF ContainsAny({"thank", "appreciate", "grateful"}, content_lower)
        THEN "appreciation"
        ELSE IF ContainsAny({"new", "update", "announce", "launch"}, content_lower)
        THEN "announcement"
        ELSE "general"

\* LearningModule._categorize_content
_categorize_content(content) ==
    LET content_lower == lower(content)
    IN  IF ContainsAny({"buy", "purchase", "sale", "offer", "discount"}, content_lower)
        THEN "promotional"
        ELSE IF ContainsAny({"how", "why", "what", "guide", "tip"}, content_lower)
        THEN "educational"
        ELSE IF ContainsAny({"?", "question", "ask", "help"}, content_lower)
        THEN "question"
        ELSE IF ContainsAny({"thank", "appreciate", "grateful"}, content_lower)
        THEN "appreciation"
        ELSE IF ContainsAny({"new", "update", "announce", "launch"}, content_lower)
        THEN "announcement"
        ELSE "general"

\* base_scores, in the order of the dict, in thousandths
base_scores ==
    <<[key |-> "post", value |-> 1000], [key |-> "reply", value |-> 2000],
      [key |-> "like", value |-> 1500], [key |-> "share", value |-> 3000],
      [key |-> "mention", value |-> 2500], [key |-> "dm", value |-> 4000]>>

\* LearningModule._estimate_engagement, in thousandths
_estimate_engagement(interaction_type, data) ==
    LET tag == lower(interaction_type)
        hits == {i \in DOMAIN base_scores : Contains(base_scores[i].key, tag)}
        score == IF hits = {} THEN 0 ELSE base_scores[Min(hits)].value
        text == lower(str(data))
        sales == IF Contains("sales", text) THEN (score * 15) \div 10 ELSE score
    IN  IF Contains("follow", text) THEN (sales * 13) \div 10 ELSE sales

\* keyword_performance[word] += 1 for the words of the content
RECURSIVE CountWords(_, _)
CountWords(words, keyword_performance) ==
    IF words = <<>> THEN keyword_performance
    ELSE CountWords(Tail(words),
                    IF Len(Head(words)) > 3 /\ isalpha(Head(words))
                    THEN Accumulate(keyword_performance, Head(words), 1)
                    ELSE keyword_performance)

NoContentScan ==
    [content_lengths |-> <<>>, keyword_performance |-> <<>>,
     content_performance |-> <<>>, raised |-> FALSE]

\* one pass of the loop body of the content analysis
ContentStep(H, key, acc) ==
    LET interaction == hgetall(H, key)
        data == json_loads(interaction.data)
        content == data.value.content
    IN  IF interaction = EmptyHash \/ interaction.data.kind = "absent" THEN acc
        ELSE IF data.error # "none" THEN acc
        ELSE IF ~IsDict(data.value) THEN [acc EXCEPT !.raised = TRUE]
        ELSE IF content \in {Absent, Null, ""} THEN acc
        ELSE [acc EXCEPT
                 !.content_lengths = Append(@, Len(content)),
                 !.keyword_performance = CountWords(split(lower(content)), @),
                 !.content_performance =
                     Accumulate(@, _categorize_content(content),
                                _estimate_engagement(interaction.type, data.value))]

RECURSIVE ContentLoop(_, _, _, _)
ContentLoop(H, keys, i, acc) ==
    IF i > Len(keys) \/ acc.raised THEN acc
    ELSE ContentLoop(H, keys, i + 1, ContentStep(H, keys[i], acc))

\* sorted(keyword_performance.items(), key=count, reverse=True)
SortByCount(items) == SortByAverageDesc([i \in DOMAIN items |-> [items[i] EXCEPT !.n = 1]])

NewContentAnalysis ==
    [empty |-> FALSE, high_performing_keywords |-> <<>>,
     optimal_content_length |-> <<>>, best_content_types |-> <<>>,
     engagement_triggers |-> <<>>, raised |-> FALSE]

\* {}
EmptyContentAnalysis == [NewContentAnalysis EXCEPT !.empty = TRUE]

\* the body of the loop over the platforms
ContentPlatform(H, L, platform, content_analysis) ==
    LET acc == ContentLoop(H, Take(lrange(L, "interactions:" \o platform), 101), 1,
                           NoContentScan)
        total == SumSeq(acc.content_lengths)
        count == Len(acc.content_lengths)
        lengths ==
            IF count > 0
            THEN Append(content_analysis.optimal_content_length,
                        [platform |-> platform,
                         average |-> [num |-> total, den |-> count],
                         median |-> SortAsc(acc.content_lengths)[(count \div 2) + 1],
                         recommended_range |->
                             <<(total * 8) \div (count * 10),
                               (total * 12) \div (count * 10)>>])
            ELSE content_analysis.optimal_content_length
        types ==
            IF acc.content_performance # <<>>
            THEN Append(content_analysis.best_content_types,
                        [platform |-> platform,
                         types |-> Take(Averages(SortByAverageDesc(
                                            acc.content_performance)), 3)])
            ELSE content_analysis.best_content_types
        top_keywords == Take(SortByCount(acc.keyword_performance), 10)
    IN  IF acc.raised THEN [content_analysis EXCEPT !.raised = TRUE]
        ELSE [content_analysis EXCEPT
                 !.optimal_content_length = lengths,
                 !.best_content_types = types,
                 !.high_performing_keywords = @ \o Keys(top_keywords)]

RECURSIVE ContentPlatforms(_, _, _, _)
ContentPlatforms(H, L, i, content_analysis) ==
    IF i > Len(Platforms) \/ content_analysis.raised THEN content_analysis
    ELSE ContentPlatforms(H, L, i + 1,
                          ContentPlatform(H, L, Platforms[i], content_analysis))

\* LearningModule._analyze_content_performance: the analysis, or {} from the
\* handler
_analyze_content_performance(ready, H, L, seed) ==
    LET content_analysis == ContentPlatforms(H, L, 1, NewContentAnalysis)
    IN  IF ~ready \/ content_analysis.raised THEN EmptyContentAnalysis
        ELSE [content_analysis EXCEPT
                 !.high_performing_keywords = Take(SetOrder(@, seed), 15)]

-----------------------------------------------------------------------------
(* LearningModule: timing analysis *)

\* timestamp.hour
hour(t) == ((t % TicksPerDay) * 24) \div TicksPerDay

DayNames ==
    <<"Monday", "Tuesday", "Wednesday", "Thursday", "Friday", "Saturday", "Sunday">>

\* timestamp.strftime("%A")
DayName(t) == DayNames[weekday(t \div TicksPerDay) + 1]

\* one pass of the loop body of the timing analysis
TimingStep(H, key, acc) ==
    LET interaction == hgetall(H, key)
        timestamp == fromisoformat(interaction.timestamp)
        data == json_loads(interaction.data)
        engagement_score == _estimate_engagement(interaction.type, data.value)
    IN  IF ~HasTimestamp(interaction) THEN acc
        ELSE IF timestamp.error # "none" \/ data.error # "none" THEN acc
        ELSE [acc EXCEPT
                 !.hour_engagement = Accumulate(@, hour(timestamp.t), engagement_score),
                 !.day_engagement = Accumulate(@, DayName(timestamp.t), engagement_score)]

RECURSIVE TimingLoop(_, _, _, _)
TimingLoop(H, keys, i, acc) ==
    IF i > Len(keys) THEN acc
    ELSE TimingLoop(H, keys, i + 1, TimingStep(H, keys[i], acc))

NewTimingAnalysis ==
    [empty |-> FALSE, optimal_hours |-> <<>>, optimal_days |-> <<>>,
     platform_specific_timing |-> <<>>]

\* {}
EmptyTimingAnalysis == [NewTimingAnalysis EXCEPT !.empty = TRUE]

\* the locals of the analysis that outlive one pass of the loop over the
\* platforms: hour_averages and day_averages are bound by the first platform
\* that has records and keep their value until the next one that has
NoTimingLocals ==
    [timing_analysis |-> NewTimingAnalysis,
     hour_averages |-> [bound |-> FALSE, items |-> <<>>],
     day_averages |-> [bound |-> FALSE, items |-> <<>>]]

\* the body of the loop over the platforms
TimingPlatform(H, L, platform, locals) ==
    LET acc == TimingLoop(H, Take(lrange(L, "interactions:" \o platform), 201), 1,
                          [hour_engagement |-> <<>>, day_engagement |-> <<>>])
        hour_averages == IF acc.hour_engagement # <<>>
                         THEN [bound |-> TRUE, items |-> acc.hour_engagement]
                         ELSE locals.hour_averages
        day_averages == IF acc.day_engagement # <<>>
                        THEN [bound |-> TRUE, items |-> acc.day_engagement]
                        ELSE locals.day_averages
        timing_analysis == locals.timing_analysis
    IN  [timing_analysis |->
             [timing_analysis EXCEPT
                 !.optimal_hours =
                     IF acc.hour_engagement # <<>>
                     THEN Append(@, [platform |-> platform,
                                     hours |-> Keys(Take(SortByAverageDesc(
                                                   acc.hour_engagement), 3))])
                     ELSE @,
                 !.optimal_days =
                     IF acc.day_engagement # <<>>
                     THEN Append(@, [platform |-> platform,
                                     days |-> Keys(Take(SortByAverageDesc(
                                                  acc.day_engagement), 3))])
                     ELSE @,
                 !.platform_specific_timing =
                     Append(@, [platform |-> platform,
                                hour_performance |->
                                    Averages(SortByAverageDesc(hour_averages.items)),
                                day_performance |->
                                    Averages(SortByAverageDesc(day_averages.items))])],
         hour_averages |-> hour_averages,
         day_averages |-> day_averages]

RECURSIVE TimingPlatforms(_, _, _, _)
TimingPlatforms(H, L, i, locals) ==
    IF i > Len(Platforms) THEN locals
    ELSE TimingPlatforms(H, L, i + 1, TimingPlatform(H, L, Platforms[i], locals))

\* LearningModule._analyze_timing_patterns: the analysis, or {} from the
\* handler
_analyze_timing_patterns(ready, H, L) ==
    IF ~ready THEN EmptyTimingAnalysis
    ELSE TimingPlatforms(H, L, 1, NoTimingLocals).timing_analysis

-----------------------------------------------------------------------------
(* LearningModule: sales analysis *)

\* customer_journeys[customer_id].append(step)
AddStep(customer_journeys, customer_id, step) ==
    IF \E i \in DOMAIN customer_journeys :
           customer_journeys[i].customer_id = customer_id
    THEN [i \in DOMAIN customer_journeys |->
             IF customer_journeys[i].customer_id = customer_id
             THEN [customer_journeys[i] EXCEPT !.journey = Append(@, step)]
             ELSE customer_journeys[i]]
    ELSE Append(customer_journeys,
                [customer_id |-> customer_id, journey |-> <<step>>])

\* effectiveness_score, in two-hundredths
Effectiveness(response) ==
    LET base == 2 * Len(response)
        payment == IF Contains("payment", lower(response)) THEN base * 2 ELSE base
    IN  IF Contains("?", response) THEN (payment * 3) \div 2 ELSE payment

\* one pass of the loop body of the sales analysis
SalesPatternStep(H, key, acc) ==
    LET interaction == hgetall(H, key)
        data == json_loads(interaction.data)
        response == data.value.response
        journeys ==
            IF interaction.customer_id # ""
            THEN AddStep(acc.customer_journeys, interaction.customer_id,
                         [type |-> interaction.type,
                          timestamp |-> interaction.timestamp,
                          data |-> data.value])
            ELSE acc.customer_journeys
    IN  IF interaction = EmptyHash THEN acc
        ELSE IF data.error # "none" THEN acc
        ELSE IF ~IsDict(data.value) \/ response = Absent
        THEN [acc EXCEPT !.customer_journeys = journeys]
        ELSE IF response = Null THEN [acc EXCEPT !.raised = TRUE]
        ELSE [acc EXCEPT
                 !.customer_journeys = journeys,
                 !.message_effectiveness =
                     Accumulate(@, interaction.type, Effectiveness(response))]

RECURSIVE SalesPatternLoop(_, _, _, _)
SalesPatternLoop(H, keys, i, acc) ==
    IF i > Len(keys) \/ acc.raised THEN acc
    ELSE SalesPatternLoop(H, keys, i + 1, SalesPatternStep(H, keys[i], acc))

\* sequence[i:i + length] for every i
RECURSIVE Windows(_, _, _)
Windows(sequence, length, i) ==
    IF i > Len(sequence) - length + 1 THEN <<>>
    ELSE <<SubSeq(sequence, i, i + length - 1)>> \o Windows(sequence, length, i + 1)

\* the subsequences of length 2 to 4
RECURSIVE Subsequences(_, _)
Subsequences(sequence, length) ==
    IF length > 4 \/ length > Len(sequence) THEN <<>>
    ELSE Windows(sequence, length, 1) \o Subsequences(sequence, length + 1)

\* pattern_counts[pattern] += 1 for the patterns from the i-th on
RECURSIVE CountAll(_, _, _)
CountAll(patterns, i, pattern_counts) ==
    IF i > Len(patterns) THEN pattern_counts
    ELSE CountAll(patterns, i + 1, Accumulate(pattern_counts, patterns[i], 1))

RECURSIVE CountPatterns(_, _)
CountPatterns(sequences, pattern_counts) ==
    IF sequences = <<>> THEN pattern_counts
    ELSE CountPatterns(Tail(sequences),
                       CountAll(Subsequences(Head(sequences), 2), 1, pattern_counts))

\* _find_common_patterns with the patterns that occur once reported too
FindEveryPattern(sequences) ==
    LET most_common == Take(SortByCount(CountPatterns(sequences, <<>>)), 5)
    IN  [i \in DOMAIN most_common |->
            [pattern |-> most_common[i].key, frequency |-> most_common[i].sum,
             percentage |-> Percent(most_common[i].sum, Len(sequences))]]

\* LearningModule._find_common_patterns
_find_common_patterns(sequences) ==
    LET most_common == Take(SortByCount(CountPatterns(sequences, <<>>)), 5)
        common == SelectSeq(most_common, LAMBDA item : item.sum > 1)
    IN  [i \in DOMAIN common |->
            [pattern |-> common[i].key, frequency |-> common[i].sum,
             percentage |-> Percent(common[i].sum, Len(sequences))]]

NoJourneyPatterns ==
    [empty |-> TRUE, average_touchpoints |-> ZeroRate, conversion_rate |-> ZeroRate,
     common_conversion_paths |-> <<>>]

NewSalesAnalysis ==
    [empty |-> FALSE, conversion_triggers |-> <<>>,
     customer_journey_patterns |-> NoJourneyPatterns,
     effective_sales_messages |-> <<>>, objection_handling_success |-> <<>>]

\* {}
EmptySalesAnalysis == [NewSalesAnalysis EXCEPT !.empty = TRUE]

\* the journeys of the customers that converted, as the lists of their types
ConversionPaths(customer_journeys) ==
    LET converted(journey) ==
            \E k \in DOMAIN journey : Contains("payment", lower(str(journey[k].data)))
        paths == SelectSeq(customer_journeys,
                           LAMBDA item : converted(item.journey))
    IN  [i \in DOMAIN paths |->
            [k \in DOMAIN paths[i].journey |-> paths[i].journey[k].type]]

\* LearningModule._analyze_sales_patterns: the analysis, or {} from the handler
_analyze_sales_patterns(ready, H, L) ==
    LET acc == SalesPatternLoop(H, Take(lrange(L, "sales_interactions"), 101), 1,
                                [customer_journeys |-> <<>>,
                                 message_effectiveness |-> <<>>, raised |-> FALSE])
        journeys == acc.customer_journeys
        conversion_paths == ConversionPaths(journeys)
    IN  IF ~ready \/ acc.raised THEN EmptySalesAnalysis
        ELSE [NewSalesAnalysis EXCEPT
                 !.customer_journey_patterns =
                     IF journeys # <<>>
                     THEN [empty |-> FALSE,
                           average_touchpoints |->
                               [num |-> SumSeq([i \in DOMAIN journeys |->
                                                   Len(journeys[i].journey)]),
                                den |-> Len(journeys)],
                           conversion_rate |->
                               Percent(Len(conversion_paths), Len(journeys)),
                           common_conversion_paths |->
                               _find_common_patterns(conversion_paths)]
                     ELSE NoJourneyPatterns,
                 !.effective_sales_messages =
                     Take(Averages(SortByAverageDesc(acc.message_effectiveness)), 5)]

-----------------------------------------------------------------------------
(* LearningModule: insights and strategies *)

NoAnalysis ==
    [content_performance |-> EmptyContentAnalysis,
     timing_patterns |-> EmptyTimingAnalysis,
     sales_patterns |-> EmptySalesAnalysis]

Insight(type, priority, insight, action, expected_impact) ==
    [type |-> type, priority |-> priority, insight |-> insight,
     action |-> action, expected_impact |-> expected_impact]

\* f"{platform_performance}" of a dict of strings
DictText(items) ==
    "{" \o Join([i \in DOMAIN items |->
                    "'" \o items[i].platform \o "': '" \o items[i].best_type \o "'"],
                ", ") \o "}"

\* LearningModule._generate_insights; the analyses that failed are read
\* with .get and count as empty
_generate_insights(analysis_results) ==
    LET content_analysis == analysis_results.content_performance
        timing_analysis == analysis_results.timing_patterns
        sales_analysis == analysis_results.sales_patterns
        keywords == Get(content_analysis, "high_performing_keywords", <<>>)
        optimal_hours == Get(timing_analysis, "optimal_hours", <<>>)
        journey_patterns ==
            Get(sales_analysis, "customer_journey_patterns", NoJourneyPatterns)
        avg_touchpoints == Get(journey_patterns, "average_touchpoints", ZeroRate)
        best_content_types == Get(content_analysis, "best_content_types", <<>>)
        platform_performance ==
            [i \in DOMAIN best_content_types |->
                [platform |-> best_content_types[i].platform,
                 best_type |-> best_content_types[i].types[1].key]]
    IN  (IF keywords # <<>>
         THEN <<Insight("content_optimization", "high",
                        "Top performing keywords: " \o Join(Take(keywords, 5), ", "),
                        "Incorporate these keywords more frequently in content",
                        "15-25% increase in engagement")>>
         ELSE <<>>)
        \o [i \in DOMAIN optimal_hours |->
               Insight("timing_optimization", "medium",
                       "Best posting times for " \o optimal_hours[i].platform \o ": "
                       \o Join([k \in DOMAIN optimal_hours[i].hours |->
                                   ToString(optimal_hours[i].hours[k])], ", ")
                       \o ":00",
                       "Schedule more posts during these hours on "
                       \o optimal_hours[i].platform,
                       "10-20% increase in engagement")]
        \o (IF avg_touchpoints.num # 0
            THEN <<Insight("sales_optimization", "high",
                           "Average customer needs "
                           \o Fixed(avg_touchpoints.num, avg_touchpoints.den, 1)
                           \o " touchpoints before conversion",
                           "Develop nurture sequences with appropriate follow-up timing",
                           "20-30% improvement in conversion rate")>>
            ELSE <<>>)
        \o (IF platform_performance # <<>>
            THEN <<Insight("platform_optimization", "medium",
                           "Platform content preferences: "
                           \o DictText(platform_performance),
                           "Tailor content types to each platform's preferences",
                           "12-18% increase in platform-specific engagement")>>
            ELSE <<>>)

Digits == "0123456789"

\* int(text) of a text of digits
RECURSIVE ParseNat(_)
ParseNat(text) ==
    IF text = "" THEN 0
    ELSE 10 * ParseNat(SubSeq(text, 1, Len(text) - 1))
         + (CHOOSE d \in 0..9 : SubSeq(Digits, d + 1, d + 1)
                                  = SubSeq(text, Len(text), Len(text)))

IsNat(text) ==
    /\ text # ""
    /\ \A k \in 1..Len(text) :
          \E d \in 1..Len(Digits) : SubSeq(Digits, d, d) = SubSeq(text, k, k)

\* float(text) of a decimal: the number as a fraction, or ValueError
ParseFloat(text) ==
    LET parts == Split(text, ".")
    IN  IF Len(parts) = 1 /\ IsNat(parts[1])
        THEN [error |-> "none", num |-> ParseNat(parts[1]), den |-> 1]
        ELSE IF Len(parts) = 2 /\ IsNat(parts[1]) /\ IsNat(parts[2])
        THEN [error |-> "none",
              num |-> ParseNat(parts[1]) * Pow10(Len(parts[2])) + ParseNat(parts[2]),
              den |-> Pow10(Len(parts[2]))]
        ELSE [error |-> "ValueError", num |-> 0, den |-> 1]

\* strategy_updates as _update_strategies starts it; a key that is not set
\* holds <<>>
NewStrategies ==
    [content_strategy |-> [priority_keywords |-> <<>>],
     timing_strategy |-> <<>>,
     sales_strategy |-> [recommended_touchpoints |-> <<>>],
     platform_strategy |-> [content_preferences |-> <<>>]]

\* timing_strategy[platform] = times
PutTiming(timing_strategy, platform, times) ==
    IF \E i \in DOMAIN timing_strategy : timing_strategy[i].platform = platform
    THEN [i \in DOMAIN timing_strategy |->
             IF timing_strategy[i].platform = platform
             THEN [timing_strategy[i] EXCEPT !.times = times]
             ELSE timing_strategy[i]]
    ELSE Append(timing_strategy, [platform |-> platform, times |-> times])

\* the loop body of _update_strategies: the insight's text parsed back
StrategyStep(insight, strategy_updates) ==
    LET text == insight.insight
        tail == IF Contains(": ", text) THEN Last(Split(text, ": ")) ELSE ""
        platform == IF Contains(" for ", text)
                    THEN Split(Last(Split(text, " for ")), ":")[1] ELSE ""
        touchpoints == Split(Last(Split(text, " needs ")), " touchpoints")[1]
        number == ParseFloat(touchpoints)
    IN  CASE insight.type = "content_optimization" ->
               IF tail # ""
               THEN [strategy_updates EXCEPT
                        !.content_strategy.priority_keywords = Split(tail, ", ")]
               ELSE strategy_updates
          [] insight.type = "timing_optimization" ->
               IF platform # "" /\ tail # ""
               THEN [strategy_updates EXCEPT
                        !.timing_strategy = PutTiming(@, platform, Split(tail, ", "))]
               ELSE strategy_updates
          [] insight.type = "sales_optimization" ->
               IF Contains("touchpoints", text) /\ number.error = "none"
               THEN [strategy_updates EXCEPT
                        !.sales_strategy.recommended_touchpoints =
                            <<[num |-> number.num, den |-> number.den]>>]
               ELSE strategy_updates
          [] insight.type = "platform_optimization" ->
               [strategy_updates EXCEPT
                   !.platform_strategy.content_preferences = <<text>>]
          [] OTHER -> strategy_updates

\* the strategy_updates document _update_strategies derives from the insights
RECURSIVE Strategies(_, _, _)
Strategies(insights, i, strategy_updates) ==
    IF i > Len(insights) THEN strategy_updates
    ELSE Strategies(insights, i + 1, StrategyStep(insights[i], strategy_updates))

-----------------------------------------------------------------------------
(* The state after construction: an empty store, no call running *)

NoScan ==
    [op |-> "none", platform |-> "", start_date |-> 0, end_date |-> 0,
     interactions |-> [value |-> <<>>, failed |-> FALSE, warnings |-> <<>>],
     metrics |-> EmptyMetrics,
     sales |-> [value |-> EmptySalesData, warnings |-> <<>>],
     leads |-> [value |-> EmptyLeadMetrics, warnings |-> <<>>,
                sales_warnings |-> <<>>]]

NoReport ==
    [empty |-> TRUE, period |-> "", start_date |-> 0, end_date |-> 0,
     summary |-> [total_social_interactions |-> 0, total_posts_created |-> 0,
                  total_sales |-> 0, total_revenue |-> 0, total_leads |-> 0,
                  conversion_rate |-> ZeroRate],
     social_media |-> [p \in Range(Platforms) |-> EmptyMetrics],
     sales |-> EmptySalesData, leads |-> EmptyLeadMetrics,
     performance_insights |-> <<>>]

\* the locals of generate_report and the course of the call: down names the
\* steps during which the store did not answer, failed the steps whose
\* reducer ended in its outer handler, ready whether self.db was set when
\* the report was stored, error the exception the handler of the call
\* caught, seen the number of records logged when the call began, calls the
\* number of calls so far
NoWork ==
    [start_date |-> 0, end_date |-> 0, next |-> 1, leads |-> NoLeadScan,
     down |-> {}, failed |-> {}, ready |-> FALSE, error |-> "", seen |-> 0,
     calls |-> 0]

EmptyStore ==
    /\ hashes = <<>>
    /\ lists = <<>>
    /\ kv = <<>>

\* LearningModule.learning_patterns as the constructor sets it: the six
\* empty sections it starts with are never written again and are left out
FreshPatterns ==
    [last_analysis |-> NoTimestamp, analysis_results |-> <<>>,
     generated_insights |-> <<>>, cycle_count |-> [kind |-> "absent", v |-> 0]]

\* what run_learning_cycle returns
NoSummary ==
    [kind |-> "none", cycle_completed_at |-> NoTimestamp, insights_generated |-> 0,
     analysis_results |-> NoAnalysis, insights |-> <<>>,
     improvements_implemented |-> 0]

\* the locals of run_learning_cycle and the course of the calls: seed is the
\* hash seed of the process, calls the number of calls so far, restarts
\* the number of times the program was started again, before the
\* two documents, the patterns in memory and the number of records logged
\* when the call began, prev the same of the call before
NoLearnWork ==
    [analysis_results |-> NoAnalysis, insights |-> <<>>, seed |-> 0, calls |-> 0,
     restarts |-> 0,
     before |-> [patterns |-> <<>>, strategies |-> <<>>, memory |-> FreshPatterns,
                 logged |-> 0],
     prev |-> [kind |-> "none", insights |-> <<>>, logged |-> 0]]

\* no helper was called
NoCall == [fn |-> "", arg |-> <<>>, result |-> <<>>]

\* no call runs interleaved with another
NoTasks == tasks = <<>> /\ wire = <<>>

IdleCalls ==
    /\ scan = NoScan
    /\ apc = "idle"
    /\ aperiod = ""
    /\ awork = NoWork
    /\ areport = NoReport
    /\ aresult = NoReport
    /\ lpc = "new"
    /\ lmem = FreshPatterns
    /\ lwork = NoLearnWork
    /\ lresult = NoSummary

-----------------------------------------------------------------------------
(* The store as a call sees it.  DatabaseClient catches every exception of   *)
(* the store: lrange answers [] and hgetall {} while the store is down, and *)
(* set, hset and lpush change nothing.                                      *)

Answer(up, S) == IF up THEN S ELSE <<>>

\* DatabaseClient.set(key, value, ex)
set(K, key, value, ex) ==
    [k \in DOMAIN K \cup {key} |->
        IF k = key THEN [value |-> value, ex |-> ex] ELSE K[k]]

\* DatabaseClient.hset(key, mapping) of a mapping that names every field
hset(H, key, mapping) ==
    [k \in DOMAIN H \cup {key} |-> IF k = key THEN mapping ELSE H[k]]

\* DatabaseClient.lpush(name, key)
lpush(L, name, key) ==
    [n \in DOMAIN L \cup {name} |->
        IF n = name THEN <<key>> \o lrange(L, name) ELSE L[n]]

\* the number of records the writers logged
Logged(L) ==
    SumSeq([i \in DOMAIN Platforms |->
               Len(lrange(L, "interactions:" \o Platforms[i]))])
    + Len(lrange(L, "payment_events:paypal"))
    + Len(lrange(L, "sales_interactions"))

-----------------------------------------------------------------------------
(* Analytics.generate_report, one action for each stretch between two        *)
(* suspension points                                                        *)

\* the expiry of a stored report, in seconds
ReportExpiry == 86400 * 30

\* the call starts: the window and the empty report
GenerateReport(period) ==
    LET range == _get_date_range(period, now)
    IN  /\ apc \in {"idle", "done"}
        /\ awork.calls < MaxReports
        /\ apc' = "social"
        /\ aperiod' = period
        /\ awork' = [NoWork EXCEPT !.start_date = range[1], !.end_date = range[2],
                                   !.seen = Logged(lists),
                                   !.calls = awork.calls + 1]
        /\ areport' = [NoReport EXCEPT !.empty = FALSE, !.period = period,
                                       !.start_date = range[1],
                                       !.end_date = range[2]]
        /\ UNCHANGED <<now, storeVars, dbready, call, taskVars, scan, aresult, learnVars>>

\* whether the store may be down for the next step of the call
MayFail(up) == up \/ Cardinality(awork.down) < MaxOutages

\* the engagement reducer of the next platform
ReportSocial ==
    \E up \in BOOLEAN :
        LET platform == Platforms[awork.next]
            interactions ==
                _get_interactions_in_period(dbready, Answer(up, hashes),
                                            Answer(up, lists), platform,
                                            awork.start_date, awork.end_date)
            engagement_metrics == _get_engagement_metrics(platform, interactions.value)
        IN  /\ apc = "social"
            /\ MayFail(up)
            /\ areport' = [areport EXCEPT !.social_media[platform] = engagement_metrics]
            /\ awork' = [awork EXCEPT
                            !.next = @ + 1,
                            !.down = IF up THEN @ ELSE @ \cup {platform},
                            !.failed = IF interactions.failed
                                          \/ engagement_metrics.empty
                                       THEN @ \cup {platform} ELSE @]
            /\ apc' = IF awork.next = Len(Platforms) THEN "sales" ELSE "social"
            /\ UNCHANGED <<now, storeVars, dbready, call, taskVars, scan, aperiod, aresult, learnVars>>

\* the sales reducer
ReportSales ==
    \E up \in BOOLEAN :
        LET sales_data ==
                _get_sales_data_in_period(dbready, Answer(up, hashes),
                                          Answer(up, lists),
                                          awork.start_date, awork.end_date)
        IN  /\ apc = "sales"
            /\ MayFail(up)
            /\ areport' = [areport EXCEPT !.sales = sales_data.value]
            /\ awork' = [awork EXCEPT
                            !.down = IF up THEN @ ELSE @ \cup {"sales"},
                            !.failed = IF sales_data.value.empty
                                       THEN @ \cup {"sales"} ELSE @]
            /\ apc' = "leads"
            /\ UNCHANGED <<now, storeVars, dbready, call, taskVars, scan, aperiod, aresult, learnVars>>

\* the lead reducer up to its second scan of the payment events
ReportLeads ==
    \E up \in BOOLEAN :
        LET acc == LeadLoop(Answer(up, hashes), Answer(up, lists),
                            lrange(Answer(up, lists), "sales_interactions"), 1,
                            awork.start_date, awork.end_date, NoLeadScan)
            down == IF up THEN awork.down ELSE awork.down \cup {"leads"}
        IN  /\ apc = "leads"
            /\ MayFail(up)
            /\ IF ~dbready \/ acc.raised
               THEN /\ areport' = [areport EXCEPT !.leads = EmptyLeadMetrics]
                    /\ awork' = [awork EXCEPT !.down = down,
                                              !.failed = @ \cup {"leads"}]
                    /\ apc' = "compose"
               ELSE IF Cardinality(acc.unique_customers) > 0
               THEN /\ awork' = [awork EXCEPT !.leads = acc, !.down = down]
                    /\ apc' = "rescan"
                    /\ UNCHANGED areport
               ELSE /\ areport' = [areport EXCEPT
                                      !.leads = LeadTotals(acc, EmptySalesData)]
                    /\ awork' = [awork EXCEPT !.down = down]
                    /\ apc' = "compose"
            /\ UNCHANGED <<now, storeVars, dbready, call, taskVars, scan, aperiod, aresult, learnVars>>

\* the lead reducer from its second scan of the payment events on
ReportRescan ==
    \E up \in BOOLEAN :
        LET sales_data ==
                _get_sales_data_in_period(dbready, Answer(up, hashes),
                                          Answer(up, lists),
                                          awork.start_date, awork.end_date)
        IN  /\ apc = "rescan"
            /\ MayFail(up)
            /\ areport' = [areport EXCEPT
                              !.leads = LeadTotals(awork.leads, sales_data.value)]
            /\ awork' = [awork EXCEPT
                            !.down = IF up THEN @ ELSE @ \cup {"rescan"},
                            !.failed = IF sales_data.value.empty
                                       THEN @ \cup {"rescan"} ELSE @]
            /\ apc' = "compose"
            /\ UNCHANGED <<now, storeVars, dbready, call, taskVars, scan, aperiod, aresult, learnVars>>

\* report["summary"]
Summary(report) ==
    [total_social_interactions |->
         SumSeq([i \in DOMAIN Platforms |->
                    Get(report.social_media[Platforms[i]], "total_interactions", 0)]),
     total_posts_created |->
         SumSeq([i \in DOMAIN Platforms |->
                    Get(report.social_media[Platforms[i]], "posts_created", 0)]),
     total_sales |-> Get(report.sales, "total_sales", 0),
     total_revenue |-> Get(report.sales, "total_revenue", 0),
     total_leads |-> Get(report.leads, "total_leads", 0),
     conversion_rate |-> Get(report.leads, "conversion_rate", ZeroRate)]

\* BestPlatform taking the last platform with the most
BestPlatformLast(report) ==
    LET count(i) == Get(report.social_media[Platforms[i]], "total_interactions", 0)
        best == CHOOSE i \in DOMAIN Platforms :
                    /\ \A j \in DOMAIN Platforms : count(j) <= count(i)
                    /\ \A j \in (i + 1)..Len(Platforms) : count(j) < count(i)
    IN  Platforms[best]

\* max(platforms, key=total_interactions): the first platform with the most
BestPlatform(report) ==
    LET count(i) == Get(report.social_media[Platforms[i]], "total_interactions", 0)
        best == CHOOSE i \in DOMAIN Platforms :
                    /\ \A j \in DOMAIN Platforms : count(j) <= count(i)
                    /\ \A j \in 1..(i - 1) : count(j) < count(i)
    IN  Platforms[best]

\* report["performance_insights"]
Insights(report) ==
    LET revenue == Get(report.sales, "total_revenue", 0)
        best_platform == BestPlatform(report)
        best_platform_interactions ==
            Get(report.social_media[best_platform], "total_interactions", 0)
        conversion_rate == Get(report.leads, "conversion_rate", ZeroRate)
    IN  (IF revenue > 0
         THEN <<[type |-> "revenue",
                 message |-> "Generated $" \o Fixed(revenue, 1, 2)
                             \o " in revenue with "
                             \o ToString(report.sales.total_sales)
                             \o " completed sales",
                 metric |-> [num |-> revenue, den |-> 1]]>>
         ELSE <<>>)
        \o (IF best_platform_interactions > 0
            THEN <<[type |-> "engagement",
                    message |-> title(best_platform)
                                \o " had the highest engagement with "
                                \o ToString(best_platform_interactions)
                                \o " interactions",
                    metric |-> [num |-> best_platform_interactions, den |-> 1]]>>
            ELSE <<>>)
        \o (IF conversion_rate.num > 0
            THEN <<[type |-> "conversion",
                    message |-> "Lead to sale conversion rate: "
                                \o Fixed(conversion_rate.num, conversion_rate.den, 1)
                                \o "%",
                    metric |-> conversion_rate]>>
            ELSE <<>>)

\* the report as generate_report completes it
Composed(report) ==
    [report EXCEPT !.summary = Summary(report),
                   !.performance_insights = Insights(report)]

\* json.dumps(report) read back with json.loads: the keys of a dict become
\* strings, here the platforms of lead_sources, of which None becomes "null"
json_report(report) ==
    IF report.leads.empty THEN report
    ELSE [report EXCEPT
             !.leads.lead_sources =
                 [i \in DOMAIN @ |->
                     [@[i] EXCEPT !.platform = IF @ = Null THEN "null" ELSE @]]]

\* ReportKey with the start of the period as isoformat() writes it
ReportKeyIso(period, start_date) ==
    "analytics_report:" \o period \o ":" \o strftime(start_date) \o "T00:00:00"

\* the key the report is stored under
ReportKey(period, start_date) ==
    "analytics_report:" \o period \o ":" \o strftime(start_date)

\* the exception raised between the last reducer and the return, "" for none:
\* the sections are read with .get, and self.db.set is a call on None
\* until initialize() has run
ComposeErrorStrict(ready, report) ==
    IF report.sales.empty \/ report.leads.empty
       \/ \E i \in DOMAIN Platforms : report.social_media[Platforms[i]].empty
    THEN "KeyError"
    ELSE IF ready THEN "" ELSE "AttributeError"

ComposeError(ready, report) == IF ready THEN "" ELSE "AttributeError"

\* how the call ends: the outer handler catches every Exception and returns {}
OutcomeRaise(error, report) ==
    IF error = "" THEN [pc |-> "done", result |-> report]
    ELSE [pc |-> "raised", result |-> NoReport]

Outcome(error, report) ==
    IF error = "" THEN [pc |-> "done", result |-> report]
    ELSE [pc |-> "done", result |-> NoReport]

\* the summary, the insights, the stored report and the return
ReportCompose ==
    \E up \in BOOLEAN :
        LET report == Composed(areport)
            error == ComposeError(dbready, report)
            outcome == Outcome(error, report)
        IN  /\ apc = "compose"
            /\ MayFail(up)
            /\ error # "" => up
            /\ apc' = outcome.pc
            /\ aresult' = outcome.result
            /\ areport' = report
            /\ kv' = IF error = "" /\ up
                     THEN set(kv, ReportKey(aperiod, awork.start_date),
                              json_report(report), ReportExpiry)
                     ELSE kv
            /\ awork' = [awork EXCEPT !.error = error, !.ready = dbready,
                                      !.down = IF up THEN @ ELSE @ \cup {"store"}]
            /\ UNCHANGED <<now, hashes, lists, dbready, call, taskVars, scan, aperiod, learnVars>>

-----------------------------------------------------------------------------
(* The rest of the program, as far as the reports see it: the clock, the    *)
(* construction of the store client and the writers of the three logs       *)

\* Analytics.initialize
Initialize ==
    /\ ~dbready
    /\ dbready' = TRUE
    /\ UNCHANGED <<now, storeVars, scan, call, taskVars, reportVars, learnVars>>

\* a second passes
Tick ==
    /\ now < MaxNow
    /\ now' = now + 1
    /\ UNCHANGED <<storeVars, dbready, call, taskVars, scan, reportVars, learnVars>>

\* datetime.utcnow().isoformat()
utcnow == TS("naive", now)

\* TwitterClient, MastodonClient and DiscordClient._log_interaction
_log_interaction(platform, interaction_type, data) ==
    LET interaction_key == "interaction:" \o platform \o ":" \o ToString(now)
    IN  /\ hashes' = hset(hashes, interaction_key,
                          Rec(interaction_type, utcnow, data, ""))
        /\ lists' = lpush(lists, "interactions:" \o platform, interaction_key)
        /\ UNCHANGED <<now, kv, dbready, call, taskVars, scan, reportVars, learnVars>>

\* PayPalClient._log_payment_event
_log_payment_event(event_type, data) ==
    LET event_key == "payment_event:paypal:" \o ToString(now)
    IN  /\ hashes' = hset(hashes, event_key, Rec(event_type, utcnow, data, ""))
        /\ lists' = lpush(lists, "payment_events:paypal", event_key)
        /\ UNCHANGED <<now, kv, dbready, call, taskVars, scan, reportVars, learnVars>>

\* SalesManager._log_sales_interaction; up[i] tells whether the store answers
\* the i-th operation: DatabaseClient catches the exception of an operation
\* that fails and returns 0, and the writer goes on with the next one
_log_sales_interaction(interaction_type, customer_id, data, up) ==
    LET interaction_key ==
            "sales_interaction:" \o customer_id \o ":" \o ToString(now)
        history == "customer_interactions:" \o customer_id
        listed == IF up[2] THEN lpush(lists, history, interaction_key)
                  ELSE lists
    IN  /\ hashes' = IF up[1]
                      THEN hset(hashes, interaction_key,
                                Rec(interaction_type, utcnow, data, customer_id))
                      ELSE hashes
        /\ lists' = IF up[3]
                     THEN lpush(listed, "sales_interactions", interaction_key)
                     ELSE listed
        /\ UNCHANGED <<now, kv, dbready, call, taskVars, scan, reportVars, learnVars>>

\* what the writers of the report specification log, MaxAppend records at
\* most
ReportInteractions ==
    {<<"twitter", "post_tweet", Content("hello")>>,
     <<"mastodon", "post_status", Content("hello")>>}

ReportPayments ==
    {<<"payment_completed", Paid(10)>>,
     <<"payment_completed",
       Payload("object", NullAmount, Absent, Absent, Absent)>>}

ReportInit ==
    /\ now = 0
    /\ EmptyStore
    /\ dbready = FALSE
    /\ IdleCalls
    /\ NoTasks
    /\ call = NoCall

ReportNext ==
    \/ Initialize
    \/ Tick
    \/ \E w \in ReportInteractions :
          Logged(lists) < MaxAppend /\ _log_interaction(w[1], w[2], w[3])
    \/ \E w \in ReportPayments :
          Logged(lists) < MaxAppend /\ _log_payment_event(w[1], w[2])
    \/ /\ Logged(lists) < MaxAppend
       /\ _log_sales_interaction("inquiry_processed", "c1", From("twitter"),
                                 <<TRUE, TRUE, TRUE>>)
    \/ \E period \in Periods : GenerateReport(period)
    \/ ReportSocial
    \/ ReportSales
    \/ ReportLeads
    \/ ReportRescan
    \/ ReportCompose

SpecReport == ReportInit /\ [][ReportNext]_vars

-----------------------------------------------------------------------------
(* LearningModule.run_learning_cycle, one action for each stretch between   *)
(* two suspension points; the store answers every call of the cycle        *)

\* a document of the key-value store, as a list of at most one value
Doc(K, key) == IF key \in DOMAIN K THEN <<K[key].value>> ELSE <<>>

\* json.dumps(self.learning_patterns, default=str) read back with json.loads:
\* the keys of a dict become strings, here the hours of hour_performance
json_patterns(patterns) ==
    LET timing(t) ==
            [t EXCEPT !.platform_specific_timing =
                [i \in DOMAIN @ |->
                    [@[i] EXCEPT !.hour_performance =
                        [k \in DOMAIN @ |-> [@[k] EXCEPT !.key = ToString(@)]]]]]
    IN  IF patterns.analysis_results = <<>> THEN patterns
        ELSE [patterns EXCEPT
                 !.analysis_results =
                     <<[@[1] EXCEPT !.timing_patterns = timing(@)]>>]

\* self.learning_patterns.get("cycle_count", 0) + 1: the number, or TypeError
\* when the loaded document holds a text there
NextCycleCount(patterns) ==
    CASE patterns.cycle_count.kind = "absent" -> [error |-> "none", v |-> 1]
      [] patterns.cycle_count.kind = "int" ->
             [error |-> "none", v |-> patterns.cycle_count.v + 1]
      [] OTHER -> [error |-> "TypeError", v |-> 0]

\* {"error": str(e)}
ErrorResult == [NoSummary EXCEPT !.kind = "error"]

\* get_learning_module: the module is constructed and loads the stored
\* patterns, if there are any
get_learning_module ==
    /\ lpc = "new"
    /\ lpc' = "idle"
    /\ lmem' = IF Doc(kv, "learning_patterns") # <<>>
               THEN Doc(kv, "learning_patterns")[1] ELSE lmem
    /\ UNCHANGED <<now, storeVars, dbready, call, taskVars, scan, reportVars, lwork, lresult>>

\* the call starts
RunLearningCycle ==
    /\ lpc \in {"idle", "done"}
    /\ lwork.calls < MaxCycles
    /\ lpc' = "content"
    /\ lwork' = [lwork EXCEPT
                    !.analysis_results = NoAnalysis,
                    !.insights = <<>>,
                    !.calls = @ + 1,
                    !.prev = [kind |-> lresult.kind, insights |-> lresult.insights,
                              logged |-> lwork.before.logged],
                    !.before = [patterns |-> Doc(kv, "learning_patterns"),
                                strategies |-> Doc(kv, "strategy_updates"),
                                memory |-> lmem, logged |-> Logged(lists)]]
    /\ UNCHANGED <<now, storeVars, dbready, call, taskVars, scan, reportVars, lmem, lresult>>

\* LearnContent with an analysis whose exception is not caught: it ends
\* the call in the outer handler
LearnContentAbort ==
    LET content_analysis ==
            _analyze_content_performance(TRUE, hashes, lists, lwork.seed)
    IN  /\ lpc = "content"
        /\ lpc' = IF content_analysis.empty THEN "done" ELSE "timing"
        /\ lresult' = IF content_analysis.empty THEN ErrorResult ELSE lresult
        /\ lwork' = [lwork EXCEPT
                        !.analysis_results.content_performance = content_analysis]
        /\ UNCHANGED <<now, storeVars, dbready, call, taskVars, scan, reportVars, lmem>>

\* the content analysis
LearnContent ==
    /\ lpc = "content"
    /\ lpc' = "timing"
    /\ lwork' = [lwork EXCEPT
                    !.analysis_results.content_performance =
                        _analyze_content_performance(TRUE, hashes, lists, lwork.seed)]
    /\ UNCHANGED <<now, storeVars, dbready, call, taskVars, scan, reportVars, lmem, lresult>>

\* the timing analysis
LearnTiming ==
    /\ lpc = "timing"
    /\ lpc' = "sales"
    /\ lwork' = [lwork EXCEPT
                    !.analysis_results.timing_patterns =
                        _analyze_timing_patterns(TRUE, hashes, lists)]
    /\ UNCHANGED <<now, storeVars, dbready, call, taskVars, scan, reportVars, lmem, lresult>>

\* the sales analysis
LearnSales ==
    /\ lpc = "sales"
    /\ lpc' = "strategies"
    /\ lwork' = [lwork EXCEPT
                    !.analysis_results.sales_patterns =
                        _analyze_sales_patterns(TRUE, hashes, lists)]
    /\ UNCHANGED <<now, storeVars, dbready, call, taskVars, scan, reportVars, lmem, lresult>>

\* _generate_insights and _update_strategies, which stores its document
LearnStrategies ==
    LET insights == _generate_insights(lwork.analysis_results)
    IN  /\ lpc = "strategies"
        /\ lpc' = "finish"
        /\ lwork' = [lwork EXCEPT !.insights = insights]
        /\ kv' = set(kv, "strategy_updates", Strategies(insights, 1, NewStrategies), 0)
        /\ UNCHANGED <<now, hashes, lists, dbready, call, taskVars, scan, reportVars, lmem, lresult>>

\* the summary of a completed cycle
Summarize(at, analysis_results, insights) ==
    [kind |-> "summary", cycle_completed_at |-> at,
     insights_generated |-> Len(insights),
     analysis_results |-> analysis_results, insights |-> insights,
     improvements_implemented |->
         Len(SelectSeq(insights, LAMBDA i : i.priority = "high"))]

\* LearnFinish storing the patterns before the count is computed
LearnFinishSaveFirst ==
    LET count == NextCycleCount(lmem)
        updated == [lmem EXCEPT
                       !.last_analysis = TS("naive", now),
                       !.analysis_results = <<lwork.analysis_results>>,
                       !.generated_insights = lwork.insights]
    IN  /\ lpc = "finish"
        /\ lpc' = "done"
        /\ kv' = set(kv, "learning_patterns", json_patterns(updated), 0)
        /\ lmem' = IF count.error = "none"
                   THEN [updated EXCEPT !.cycle_count = [kind |-> "int", v |-> count.v]]
                   ELSE lmem
        /\ lresult' = IF count.error = "none"
                      THEN Summarize(TS("naive", now), lwork.analysis_results,
                                     lwork.insights)
                      ELSE ErrorResult
        /\ UNCHANGED <<now, hashes, lists, dbready, call, taskVars, scan, reportVars, lwork>>

\* the patterns are updated and stored and the summary returned; an
\* exception of the update ends the call in the outer handler
LearnFinish ==
    LET count == NextCycleCount(lmem)
        updated == [lmem EXCEPT
                       !.last_analysis = TS("naive", now),
                       !.analysis_results = <<lwork.analysis_results>>,
                       !.generated_insights = lwork.insights,
                       !.cycle_count = [kind |-> "int", v |-> count.v]]
    IN  /\ lpc = "finish"
        /\ lpc' = "done"
        /\ IF count.error = "none"
           THEN /\ lmem' = updated
                /\ kv' = set(kv, "learning_patterns", json_patterns(updated), 0)
                /\ lresult' = Summarize(TS("naive", now), lwork.analysis_results,
                                        lwork.insights)
           ELSE /\ lresult' = ErrorResult
                /\ UNCHANGED <<lmem, kv>>
        /\ UNCHANGED <<now, hashes, lists, dbready, call, taskVars, scan, reportVars, lwork>>

-----------------------------------------------------------------------------
(* The learning cycles over a store that is shared with other writers:     *)
(* LearnInit draws the three logs from the records below.  A cycle reads   *)
(* the clock only to stamp what it stores and returns, and the clock       *)
(* stands still here; one more record is logged while the cycles run.      *)

HashSeeds == {0, 1}

Said(response) == Payload("object", NoAmount, "twitter", Absent, response)

LearnInteractions ==
    {Rec("post_tweet", TS("naive", 0), Content("hello world"), ""),
     Rec("reply", TS("naive", 1), Content("Why buy sales?"), ""),
     Rec("like", TS("naive", 0), ArrayJson, "")}

LearnMessages == {<<>>, <<Rec("send_message", TS("naive", 1), Content("launch update"), "")>>}

LearnSalesRecords ==
    {Rec("inquiry_processed", TS("naive", 0), Said("Payment link?"), "c1"),
     Rec("objection_handled", TS("naive", 1), Said(Null), "c1")}

\* the keys of the records of a topic, its index in scan order
TopicKeys(prefix, n) == [i \in 1..n |-> prefix \o ToString(i)]
TopicHashes(prefix, recs) ==
    [key \in Range(TopicKeys(prefix, Len(recs))) |->
        recs[CHOOSE i \in 1..Len(recs) : TopicKeys(prefix, Len(recs))[i] = key]]

\* the patterns a process before this one stored after one cycle over an
\* empty store
PriorPatterns ==
    json_patterns(
        [FreshPatterns EXCEPT
            !.last_analysis = TS("naive", 0),
            !.analysis_results =
                <<[content_performance |->
                       _analyze_content_performance(TRUE, <<>>, <<>>, 0),
                   timing_patterns |-> _analyze_timing_patterns(TRUE, <<>>, <<>>),
                   sales_patterns |-> _analyze_sales_patterns(TRUE, <<>>, <<>>)]>>,
            !.cycle_count = [kind |-> "int", v |-> 1]])

\* a learning_patterns document of another writer: its cycle_count is a text
ForeignPatterns == [PriorPatterns EXCEPT !.cycle_count = [kind |-> "text", v |-> 0]]

StoredPatterns(patterns) ==
    [key \in {"learning_patterns"} |-> [value |-> patterns, ex |-> 0]]

LearnStart(documents) ==
    /\ now = 1
    /\ dbready = TRUE
    /\ scan = NoScan
    /\ call = NoCall
    /\ NoTasks
    /\ apc = "idle"
    /\ aperiod = ""
    /\ awork = NoWork
    /\ areport = NoReport
    /\ aresult = NoReport
    /\ lpc = "new"
    /\ lmem = FreshPatterns
    /\ lresult = NoSummary
    /\ \E seed \in HashSeeds : lwork = [NoLearnWork EXCEPT !.seed = seed]
    /\ kv \in documents
    /\ \E posts \in SeqsUpTo(LearnInteractions, MaxLearn), messages \in LearnMessages,
          sales \in SeqsUpTo(LearnSalesRecords, MaxLearn) :
          /\ hashes = TopicHashes("t", posts) @@ TopicHashes("d", messages)
                      @@ TopicHashes("s", sales)
          /\ lists = [name \in {"interactions:twitter"} |-> TopicKeys("t", Len(posts))]
                     @@ [name \in {"interactions:discord"} |->
                            TopicKeys("d", Len(messages))]
                     @@ [name \in {"sales_interactions"} |->
                            TopicKeys("s", Len(sales))]

LearnInit == LearnStart({<<>>, StoredPatterns(PriorPatterns)})

AbortInit == LearnStart({<<>>, StoredPatterns(PriorPatterns), StoredPatterns(ForeignPatterns)})

LearnNext ==
    \/ get_learning_module
    \/ /\ "interaction:twitter:" \o ToString(now) \notin DOMAIN hashes
       /\ _log_interaction("twitter", "post_tweet", Content("new offer"))
    \/ RunLearningCycle
    \/ LearnContent
    \/ LearnTiming
    \/ LearnSales
    \/ LearnStrategies
    \/ LearnFinish

SpecLearn == LearnInit /\ [][LearnNext]_vars

SpecAbort == AbortInit /\ [][LearnNext]_vars

\* the program is stopped between two cycles and started again: a new
\* interpreter with a new hash seed, and a new module that has yet to load
\* the stored patterns
Restart ==
    /\ lpc = "done"
    /\ lwork.restarts < MaxRestarts
    /\ lpc' = "new"
    /\ lmem' = FreshPatterns
    /\ \E seed \in HashSeeds :
          lwork' = [lwork EXCEPT !.seed = seed, !.restarts = @ + 1]
    /\ UNCHANGED <<now, storeVars, dbready, call, taskVars, scan, reportVars, lresult>>

RestartNext == LearnNext \/ Restart

SpecRestart == LearnInit /\ [][RestartNext]_vars

-----------------------------------------------------------------------------
(* The reducers on their own: the log store is shared with other writers,   *)
(* so a scan may meet any record.  ScanInit draws the content of one topic *)
(* from the records below and the scan actions apply the reducers to it.   *)

\* the daily window of the scans and the times around its two ends
ScanNow == TicksPerDay
ScanStart == _get_date_range("daily", ScanNow)[1]
ScanEnd == _get_date_range("daily", ScanNow)[2]
OtherStamps ==
    {TS("naive", ScanStart - 1), TS("naive", ScanEnd), TS("aware", ScanStart),
     TS("bad", 0)}
AtStart == TS("naive", ScanStart)

InteractionTypes ==
    {"post_tweet", "reply", "mention", "like", "share", "boost_status", "retweet"}

InteractionRecords ==
    {Rec(type, AtStart, Content("hi"), "") : type \in InteractionTypes}
    \cup {Rec("reply", ts, EmptyObject, "") : ts \in OtherStamps}
    \cup {Rec("reply", AtStart, data, "") : data \in {Malformed, ArrayJson}}

PaymentRecords ==
    {Rec("payment_completed", AtStart, Paid(a), "") : a \in {1, 2}}
    \cup {Rec(type, AtStart, Paid(1), "") :
             type \in {"order_created", "payment_refunded", "subscription_created"}}
    \cup {Rec("payment_completed", ts, Paid(1), "") : ts \in OtherStamps}
    \cup {Rec("payment_completed", AtStart, data, "") :
             data \in {Malformed, ArrayJson,
                       Payload("object", TextAmount, Absent, Absent, Absent)}}

Customers == {"c1", "c2"}

SalesRecords ==
    {Rec("inquiry_processed", AtStart, From(p), c) :
         p \in {"twitter", Absent}, c \in Customers}
    \cup {Rec("message_sent", ts, From("twitter"), "c1") : ts \in OtherStamps}
    \cup {Rec("message_sent", AtStart, data, "c1") : data \in {Malformed, ArrayJson}}
    \cup {Rec("message_sent", AtStart, Malformed, "")}

\* the keys k1, k2, ... of the records of a topic, its index in scan order
ScanKeys(n) == [i \in 1..n |-> "k" \o ToString(i)]
ScanHashes(recs) ==
    [key \in Range(ScanKeys(Len(recs))) |->
        recs[CHOOSE i \in 1..Len(recs) : ScanKeys(Len(recs))[i] = key]]

\* all-time histories of the customers: c1 with one or two interactions
Histories ==
    {[name \in {"customer_interactions:c1", "customer_interactions:c2"} |->
         IF name = "customer_interactions:c1" THEN h ELSE <<"h3">>] :
       h \in {<<"h1">>, <<"h1", "h2">>}}

\* payment events beside the sales interactions, for the lead conversion rate
LeadPayments ==
    {<<>>, <<Rec("payment_completed", AtStart, Paid(1), "")>>,
     <<Rec("payment_completed", TS("aware", ScanStart), Paid(1), "")>>}

ScanInit ==
    /\ now = ScanNow
    /\ dbready = TRUE
    /\ kv = <<>>
    /\ IdleCalls
    /\ NoTasks
    /\ call = NoCall
    /\ \/ \E recs \in SeqsUpTo(InteractionRecords, MaxScan) :
             /\ hashes = ScanHashes(recs)
             /\ lists = [name \in {"interactions:twitter"} |-> ScanKeys(Len(recs))]
       \/ \E recs \in SeqsUpTo(PaymentRecords, MaxScan) :
             /\ hashes = ScanHashes(recs)
             /\ lists = [name \in {"payment_events:paypal"} |-> ScanKeys(Len(recs))]
       \/ \E recs \in SeqsUpTo(SalesRecords, MaxScan), hist \in Histories,
             pay \in LeadPayments :
             /\ hashes = ScanHashes(recs)
                           @@ [key \in {"p1"} \cap {"p" \o ToString(Len(pay))} |-> pay[1]]
             /\ lists = [name \in {"sales_interactions"} |-> ScanKeys(Len(recs))]
                          @@ hist
                          @@ [name \in {"payment_events:paypal"} |->
                                 IF pay = <<>> THEN <<>> ELSE <<"p1">>]

\* the engagement reducer of one platform: the scan and its metrics
ScanEngagement(platform, period) ==
    LET range == _get_date_range(period, now)
        found == _get_interactions_in_period(dbready, hashes, lists, platform,
                                             range[1], range[2])
    IN  /\ scan' = [NoScan EXCEPT
                      !.op = "engagement", !.platform = platform,
                      !.start_date = range[1], !.end_date = range[2],
                      !.interactions = found,
                      !.metrics = _get_engagement_metrics(platform, found.value)]
        /\ UNCHANGED <<now, storeVars, dbready, call, taskVars, reportVars, learnVars>>

ScanSales(period) ==
    LET range == _get_date_range(period, now)
    IN  /\ scan' = [NoScan EXCEPT
                      !.op = "sales",
                      !.start_date = range[1], !.end_date = range[2],
                      !.sales = _get_sales_data_in_period(dbready, hashes, lists,
                                                          range[1], range[2])]
        /\ UNCHANGED <<now, storeVars, dbready, call, taskVars, reportVars, learnVars>>

ScanLeads(period) ==
    LET range == _get_date_range(period, now)
    IN  /\ scan' = [NoScan EXCEPT
                      !.op = "leads",
                      !.start_date = range[1], !.end_date = range[2],
                      !.leads = _get_lead_metrics(dbready, hashes, lists,
                                                  range[1], range[2])]
        /\ UNCHANGED <<now, storeVars, dbready, call, taskVars, reportVars, learnVars>>

ScanPeriods == {"daily", "weekly"}

ScanNext ==
    \/ \E platform \in {"twitter", "discord"}, period \in ScanPeriods :
          ScanEngagement(platform, period)
    \/ \E period \in ScanPeriods : ScanSales(period)
    \/ \E period \in ScanPeriods : ScanLeads(period)

SpecScan == ScanInit /\ [][ScanNext]_vars

-----------------------------------------------------------------------------
(* Properties of the reducers, stated on the last scan *)

\* the index list a scan read
ScanList ==
    CASE scan.op = "engagement" -> "interactions:" \o scan.platform
      [] scan.op = "sales" -> "payment_events:paypal"
      [] OTHER -> "sales_interactions"
ScanIndex == lrange(lists, ScanList)

\* the record of a key has a timestamp that parses, at or after the start of
\* the scanned period and before its end
Stamped(key) == hgetall(hashes, key).timestamp.kind \in {"naive", "aware"}
Windowed(key) ==
    /\ Stamped(key)
    /\ scan.start_date <= hashes[key].timestamp.t
    /\ hashes[key].timestamp.t < scan.end_date
Decodable(key) == hgetall(hashes, key).data.kind # "malformed"
TypeHas(tag, key) == Contains(tag, hgetall(hashes, key).type)

CountKeys(index, P(_)) == Cardinality({i \in DOMAIN index : P(index[i])})

\* the scan ran to its end: it did not return through its outer handler
ScanCompleted ==
    CASE scan.op = "engagement" -> ~scan.interactions.failed
      [] scan.op = "sales" -> ~scan.sales.value.empty
      [] scan.op = "leads" -> ~scan.leads.value.empty
      [] OTHER -> FALSE

ItemKeys(items) == [i \in DOMAIN items |-> items[i].key]

\* C1: in every scan that runs to its end, a record with a parsable timestamp t
\* is aggregated if and only if start <= t < end: the interactions returned are
\* exactly the decodable records of the window, the sales counters count
\* exactly the decodable events of the window, by type, and the leads are
\* exactly the customers named by the sales interactions of the window
C1_HalfOpenWindow ==
    ScanCompleted =>
        LET InWindow(key) == Windowed(key) /\ Decodable(key)
            Completed(key) == InWindow(key) /\ TypeHas("payment_completed", key)
            Ordered(key) == /\ InWindow(key) /\ TypeHas("order_created", key)
                            /\ ~TypeHas("payment_completed", key)
            Refunded(key) == /\ InWindow(key) /\ TypeHas("payment_refunded", key)
                             /\ ~TypeHas("payment_completed", key)
                             /\ ~TypeHas("order_created", key)
        IN  CASE scan.op = "engagement" ->
                   ItemKeys(scan.interactions.value) = SelectSeq(ScanIndex, InWindow)
              [] scan.op = "sales" ->
                   /\ scan.sales.value.total_sales = CountKeys(ScanIndex, Completed)
                   /\ scan.sales.value.orders_created = CountKeys(ScanIndex, Ordered)
                   /\ scan.sales.value.total_refunds = CountKeys(ScanIndex, Refunded)
              [] OTHER ->
                   scan.leads.value.total_leads =
                       Cardinality({hashes[ScanIndex[i]].customer_id :
                                       i \in {j \in DOMAIN ScanIndex :
                                                /\ Windowed(ScanIndex[j])
                                                /\ hashes[ScanIndex[j]].customer_id # ""}})

\* a daily scan that ran to its end over a record stamped exactly at the start
\* of the window, which it counted, and one stamped exactly at its end
C1_Witness ==
    /\ scan.op = "sales" /\ ScanCompleted
    /\ scan.end_date - scan.start_date = TicksPerDay
    /\ scan.sales.value.total_sales = 1
    /\ \E i, j \in DOMAIN ScanIndex :
          /\ hashes[ScanIndex[i]].timestamp = TS("naive", scan.start_date)
          /\ hashes[ScanIndex[j]].timestamp = TS("naive", scan.end_date)
          /\ TypeHas("payment_completed", ScanIndex[i])
          /\ TypeHas("payment_completed", ScanIndex[j])

\* a record the scan is to skip: its timestamp or its payload does not parse
Unparsable(key) ==
    \/ hgetall(hashes, key).timestamp.kind = "bad"
    \/ hgetall(hashes, key).data.kind = "malformed"

\* a record no reducer fails on: written the way the program's own writers do
Regular(key) ==
    /\ hgetall(hashes, key).timestamp.kind = "naive"
    /\ hgetall(hashes, key).data.kind = "object"
    /\ hgetall(hashes, key).data.amount.kind \in {"num", "absent"}

\* the lists with the keys satisfying P taken out of the scanned index
Without(P(_)) ==
    IF ScanList \in DOMAIN lists
    THEN [lists EXCEPT ![ScanList] = SelectSeq(@, LAMBDA key : ~P(key))]
    ELSE lists

\* C2: a record with an invalid timestamp or an undecodable payload does not
\* stop a scan: the scan returns what it returns for the same index without
\* those records (every other record is aggregated as before; for the lead
\* reducer, the lead sources are the same and no lead is lost), and it runs
\* to its end when every other record of the index is a regular one
C2_OnlyBadRecordSkipped ==
    LET rest == Without(Unparsable)
        start_date == scan.start_date
        end_date == scan.end_date
        interactions == _get_interactions_in_period(dbready, hashes, rest,
                                                    scan.platform, start_date, end_date)
        sales == _get_sales_data_in_period(dbready, hashes, rest, start_date, end_date)
        leads == _get_lead_metrics(dbready, hashes, rest, start_date, end_date)
    IN  /\ scan.op = "engagement" =>
              /\ scan.interactions.failed = interactions.failed
              /\ scan.interactions.value = interactions.value
        /\ scan.op = "sales" => scan.sales.value = sales.value
        /\ scan.op = "leads" =>
              /\ scan.leads.value.empty = leads.value.empty
              /\ scan.leads.value.lead_sources = leads.value.lead_sources
              /\ scan.leads.value.total_leads >= leads.value.total_leads
              /\ scan.leads.value.qualified_leads >= leads.value.qualified_leads
        /\ (/\ scan.op # "none"
            /\ \A i \in DOMAIN ScanIndex :
                  Unparsable(ScanIndex[i]) \/ Regular(ScanIndex[i]))
           => ScanCompleted

\* a scan that met a record with an invalid timestamp and one with an
\* undecodable payload, ran to its end and counted the third record
C2_Witness ==
    /\ scan.op = "sales" /\ ScanCompleted
    /\ scan.sales.value.total_sales = 1
    /\ \E i, j \in DOMAIN ScanIndex :
          /\ hashes[ScanIndex[i]].timestamp.kind = "bad"
          /\ hashes[ScanIndex[j]].data.kind = "malformed"
          /\ Windowed(ScanIndex[j])

\* C3: a record of the window whose payload is malformed JSON is left out of
\* the aggregation by every reducer: the scan returns what it returns for the
\* index without that record, and it warns about the record exactly once
C3_MalformedExcluded ==
    \A i \in DOMAIN ScanIndex :
        LET bad == ScanIndex[i]
            rest == Without(LAMBDA key : key = bad)
            start_date == scan.start_date
            end_date == scan.end_date
            Warned(warnings) == CountKeys(warnings, LAMBDA key : key = bad) = 1
        IN  (/\ hgetall(hashes, bad).timestamp.kind = "naive"
             /\ Windowed(bad)
             /\ hgetall(hashes, bad).data.kind = "malformed"
             /\ ScanCompleted)
            => CASE scan.op = "engagement" ->
                      /\ scan.interactions.value =
                            _get_interactions_in_period(dbready, hashes, rest,
                                scan.platform, start_date, end_date).value
                      /\ Warned(scan.interactions.warnings)
                 [] scan.op = "sales" ->
                      /\ scan.sales.value =
                            _get_sales_data_in_period(dbready, hashes, rest,
                                start_date, end_date).value
                      /\ Warned(scan.sales.warnings)
                 [] OTHER ->
                      /\ scan.leads.value =
                            _get_lead_metrics(dbready, hashes, rest,
                                start_date, end_date).value
                      /\ Warned(scan.leads.warnings)

\* C9: total_leads is the number of distinct customers with a sales
\* interaction in the window, qualified_leads the number of those customers
\* with more than one interaction in total, so that qualified_leads <=
\* total_leads and lead_quality_score <= 100
C9_QualifiedLeads ==
    (scan.op = "leads" /\ ScanCompleted) =>
        LET leads == {hashes[ScanIndex[i]].customer_id :
                         i \in {j \in DOMAIN ScanIndex :
                                  /\ Windowed(ScanIndex[j])
                                  /\ hashes[ScanIndex[j]].customer_id # ""}}
            qualified == {c \in leads :
                             Len(lrange(lists, "customer_interactions:" \o c)) > 1}
            metrics == scan.leads.value
        IN  /\ metrics.total_leads = Cardinality(leads)
            /\ metrics.qualified_leads = Cardinality(qualified)
            /\ metrics.qualified_leads <= metrics.total_leads
            /\ metrics.lead_quality_score.num <= 100 * metrics.lead_quality_score.den

\* C10: the engagement reducer counts each interaction under the first of
\* post, reply, mention, like, share that its type tag contains; in particular
\* every interaction whose tag contains 'share' and none of the four tags
\* before it is counted in shares_made
C10_ShareCounted ==
    (scan.op = "engagement" /\ ~scan.metrics.empty) =>
        LET tags == <<"post", "reply", "mention", "like", "share">>
            items == scan.interactions.value
            Class(n, item) ==
                /\ Contains(tags[n], item.type)
                /\ \A m \in 1..(n - 1) : ~Contains(tags[m], item.type)
            Counted(n) == Cardinality({i \in DOMAIN items : Class(n, items[i])})
        IN  scan.metrics.shares_made >= Counted(5)


-----------------------------------------------------------------------------
(* generate_report: the call as a whole *)

ReportDone == apc = "done"
Quiet == Logged(lists) = awork.seen
Sound(steps) == steps \cap (awork.down \cup awork.failed) = {}
Stored ==
    /\ ReportKey(aperiod, awork.start_date) \in DOMAIN kv
    /\ kv[ReportKey(aperiod, awork.start_date)] =
           [value |-> aresult, ex |-> ReportExpiry]

\* C4: generate_report never raises: a call ends by returning, for every
\* period string, and it returns the empty dict exactly when an exception
\* occurred inside it.
C4_NeverRaises ==
    /\ apc # "raised"
    /\ ReportDone => (aresult = NoReport <=> awork.error # "")
    /\ ReportDone /\ ~awork.ready => awork.error # ""

\* a call for a period string the code does not know ended in the handler
C4_Witness ==
    /\ ReportDone
    /\ aperiod = "hourly"
    /\ awork.error = "AttributeError"
    /\ aresult = NoReport

\* C5: when a reducer fails as a whole, by an exception or because the store
\* is down during its scan, generate_report still returns a report and
\* stores it; the summary fields fed by the failed reducer are zero and the
\* sections of the reducers that did not fail are what these reducers
\* compute from the store.
C5_ReportDespiteFailure ==
    ReportDone /\ awork.ready =>
        /\ ~aresult.empty
        /\ aresult.summary = Summary(aresult)
        /\ "store" \notin awork.down => Stored
        /\ ~Sound({"sales"}) =>
               /\ aresult.summary.total_sales = 0
               /\ aresult.summary.total_revenue = 0
        /\ ~Sound({"leads"}) =>
               /\ aresult.summary.total_leads = 0
               /\ aresult.summary.conversion_rate = ZeroRate
        /\ ~Sound(Range(Platforms)) =>
               aresult.summary.total_social_interactions =
                   SumSeq([i \in DOMAIN Platforms |->
                              IF Sound({Platforms[i]})
                              THEN aresult.social_media[Platforms[i]]
                                       .total_interactions
                              ELSE 0])
        /\ Quiet =>
               /\ \A i \in DOMAIN Platforms :
                      Sound({Platforms[i]}) =>
                          aresult.social_media[Platforms[i]] =
                              _get_engagement_metrics(
                                  Platforms[i],
                                  _get_interactions_in_period(
                                      TRUE, hashes, lists, Platforms[i],
                                      awork.start_date, awork.end_date).value)
               /\ Sound({"sales"}) =>
                      aresult.sales =
                          _get_sales_data_in_period(TRUE, hashes, lists,
                                                    awork.start_date,
                                                    awork.end_date).value
               /\ Sound({"leads"}) /\ "rescan" \notin awork.down =>
                      aresult.leads =
                          _get_lead_metrics(TRUE, hashes, lists, awork.start_date,
                                            awork.end_date).value

\* the sales reducer failed on a payment without amount, the report came
\* back with the twitter section counted and was stored
C5_Witness ==
    /\ ReportDone
    /\ awork.ready
    /\ Quiet
    /\ awork.down = {}
    /\ awork.failed = {"sales"}
    /\ aresult.sales.empty
    /\ aresult.social_media["twitter"].total_interactions > 0
    /\ Stored

-----------------------------------------------------------------------------
(* run_learning_cycle: the call as a whole *)

CycleDone == lpc = "done"
Aborted == CycleDone /\ lresult.kind = "error"
Completed == CycleDone /\ lresult.kind = "summary"
NothingLogged == Logged(lists) = lwork.before.logged
CountBefore ==
    IF lwork.before.memory.cycle_count.kind = "int"
    THEN lwork.before.memory.cycle_count.v ELSE 0

C7_SameInsights ==
    Completed =>
        /\ lmem.cycle_count = [kind |-> "int", v |-> CountBefore + 1]
        /\ (lwork.prev.kind = "summary" /\ lwork.prev.logged = Logged(lists))
               => lresult.insights = lwork.prev.insights

\* C8: an analysis that fails returns {} and the other two run all the
\* same: the call completes with a summary, never an error, in which every
\* analysis is what that analysis computes from the store, the insights are
\* the insights of these results and insights_generated is their number.
C8_IndependentAnalyses ==
    CycleDone =>
        /\ lresult.kind = "summary"
        /\ lresult.insights = _generate_insights(lresult.analysis_results)
        /\ lresult.insights_generated = Len(lresult.insights)
        /\ NothingLogged =>
              /\ lresult.analysis_results.content_performance =
                     _analyze_content_performance(TRUE, hashes, lists, lwork.seed)
              /\ lresult.analysis_results.timing_patterns =
                     _analyze_timing_patterns(TRUE, hashes, lists)
              /\ lresult.analysis_results.sales_patterns =
                     _analyze_sales_patterns(TRUE, hashes, lists)

\* a call whose content analysis failed on a payload that is no object and
\* whose timing and sales analyses gave it two insights
C8_Witness ==
    /\ Completed
    /\ NothingLogged
    /\ lresult.analysis_results.content_performance.empty
    /\ ~lresult.analysis_results.timing_patterns.empty
    /\ lresult.analysis_results.timing_patterns.optimal_hours # <<>>
    /\ ~lresult.analysis_results.sales_patterns.empty
    /\ lresult.insights_generated = 2

-----------------------------------------------------------------------------
(* The sums of the reducers *)

\* the events of the scanned window that decoded, by the branch that counts
\* them
Event(key) == Windowed(key) /\ Decodable(key)
CompletedEvent(key) == Event(key) /\ TypeHas("payment_completed", key)
OrderEvent(key) ==
    /\ Event(key) /\ TypeHas("order_created", key)
    /\ ~TypeHas("payment_completed", key)
RefundEvent(key) ==
    /\ Event(key) /\ TypeHas("payment_refunded", key)
    /\ ~TypeHas("payment_completed", key) /\ ~TypeHas("order_created", key)

\* the amount of an event: the number its payload gives, 0 when it gives none
AmountOf(key) ==
    IF hashes[key].data.amount.kind = "num" THEN hashes[key].data.amount.v ELSE 0

\* the sum of the amounts of the events of the index that satisfy P
SumAmounts(P(_)) ==
    SumSeq([i \in DOMAIN ScanIndex |->
               IF P(ScanIndex[i]) THEN AmountOf(ScanIndex[i]) ELSE 0])

Tagged(tags, before) ==
    Cardinality({i \in DOMAIN scan.interactions.value :
                    /\ \E tag \in tags : Contains(tag, scan.interactions.value[i].type)
                    /\ \A tag \in before :
                          ~Contains(tag, scan.interactions.value[i].type)})

\* C12: for the interactions of a scan, posts_created and replies_sent are
\* the numbers of interactions of these types, and engagement_rate is
\* (replies_sent + likes_given + shares_made) / posts_created * 100 when
\* posts_created > 0 and 0 when posts_created = 0, whatever the other counts
C12_EngagementRate ==
    (scan.op = "engagement" /\ ~scan.metrics.empty) =>
        LET metrics == scan.metrics
            posts == {"post", "tweet", "status"}
        IN  /\ metrics.posts_created = Tagged(posts, {})
            /\ metrics.replies_sent = Tagged({"reply"}, posts)
            /\ metrics.posts_created > 0 =>
                  metrics.engagement_rate =
                      [num |-> 100 * (metrics.replies_sent + metrics.likes_given
                                      + metrics.shares_made),
                       den |-> metrics.posts_created]
            /\ metrics.posts_created = 0 => metrics.engagement_rate = ZeroRate

\* a scan of a reply and a like with no post: the rate is 0
C12_Witness ==
    /\ scan.op = "engagement" /\ ~scan.metrics.empty
    /\ scan.metrics.posts_created = 0
    /\ scan.metrics.replies_sent = 1
    /\ scan.metrics.likes_given = 1
    /\ scan.metrics.engagement_rate = ZeroRate

-----------------------------------------------------------------------------
(* The sections of a report *)

\* a report was returned whose every step the store answered
Reported == ReportDone /\ ~aresult.empty /\ awork.down = {}

\* C13: in every report that generate_report returns, leads.conversion_rate
\* is sales.total_sales / leads.total_leads * 100, and 0.0 when total_leads
\* is 0, also when payment events are appended while the report is generated
C13_ConversionRate ==
    (Reported /\ ~aresult.leads.empty) =>
        aresult.leads.conversion_rate =
            IF aresult.leads.total_leads = 0 THEN ZeroRate
            ELSE [num |-> 100 * Get(aresult.sales, "total_sales", 0),
                  den |-> aresult.leads.total_leads]

\* the interaction count of the i-th platform in a returned report
PlatformCount(i) ==
    Get(aresult.social_media[Platforms[i]], "total_interactions", 0)
TopCount ==
    CHOOSE n \in {PlatformCount(i) : i \in DOMAIN Platforms} :
        \A i \in DOMAIN Platforms : PlatformCount(i) <= n

StartDay ==
    LET date == DateOf(awork.start_date \div TicksPerDay)
        two(n) == IF n < 10 THEN "0" \o ToString(n) ELSE ToString(n)
    IN  ToString(date.year) \o "-" \o two(date.month) \o "-" \o two(date.day)

-----------------------------------------------------------------------------
(* The logs as the writers leave them                                        *)

\* C16: a logged record is immutable: no step changes or removes the stored
\* fields of a record already logged, so every index entry keeps referring
\* to the record it was appended for, also for two records of one topic
\* logged within the same clock second
C16_Immutable ==
    [][\A key \in DOMAIN hashes :
          key \in DOMAIN hashes' /\ hashes'[key] = hashes[key]]_vars

\* the sales writer with a store that may fail any of its operations, and the
\* clock; each index holds MaxAppend keys at most
LogNext ==
    \/ Tick
    \/ \E customer_id \in Customers, up \in [1..3 -> BOOLEAN] :
          /\ Len(lrange(lists, "sales_interactions")) < MaxAppend
          /\ Len(lrange(lists, "customer_interactions:" \o customer_id))
                < MaxAppend
          /\ _log_sales_interaction("inquiry_processed", customer_id,
                                    From("twitter"), up)

SpecLog == ReportInit /\ [][LogNext]_vars

\* C17: after every call of _log_sales_interaction, however its store
\* operations end, a key is in sales_interactions exactly if it is in the
\* customer_interactions index of its customer, and every key of either index
\* has its record stored
C17_IndexesAgree ==
    LET global == Range(lrange(lists, "sales_interactions"))
        History(c) == Range(lrange(lists, "customer_interactions:" \o c))
    IN  /\ \A key \in global :
              /\ key \in DOMAIN hashes
              /\ key \in History(hashes[key].customer_id)
        /\ \A c \in Customers : \A key \in History(c) :
              key \in DOMAIN hashes /\ key \in global

-----------------------------------------------------------------------------
(* LearningModule.apply_learned_optimizations: a read of the patterns in     *)
(* memory; None is a value with the flag none                                *)

apply_learned_optimizations(patterns, content_type, platform) ==
    LET analysis_results ==
            IF patterns.analysis_results = <<>> THEN NoAnalysis
            ELSE patterns.analysis_results[1]
        content_performance == analysis_results.content_performance
        keywords == Get(content_performance, "high_performing_keywords", <<>>)
        optimal_lengths == Get(content_performance, "optimal_content_length", <<>>)
        optimal_hours == Get(analysis_results.timing_patterns, "optimal_hours", <<>>)
        best_types == Get(content_performance, "best_content_types", <<>>)
        Of(items) == {i \in DOMAIN items : items[i].platform = platform}
        Entry(items) == items[CHOOSE i \in Of(items) : TRUE]
    IN  [recommended_keywords |-> Take(keywords, 5),
         optimal_length |->
             IF Of(optimal_lengths) # {}
             THEN [none |-> FALSE,
                   range |-> Entry(optimal_lengths).recommended_range]
             ELSE [none |-> TRUE, range |-> <<>>],
         best_posting_time |->
             IF Of(optimal_hours) # {}
             THEN [none |-> FALSE, hours |-> Entry(optimal_hours).hours]
             ELSE [none |-> TRUE, hours |-> <<>>],
         content_style |->
             IF Of(best_types) # {} /\ Entry(best_types).types # <<>>
             THEN Entry(best_types).types[1].key
             ELSE "general"]

\* the platforms the patterns in memory hold learned data for
Learned ==
    LET analysis_results ==
            IF lmem.analysis_results = <<>> THEN NoAnalysis
            ELSE lmem.analysis_results[1]
        Of(d, field) == {item.platform : item \in Range(Get(d, field, <<>>))}
    IN  Of(analysis_results.content_performance, "optimal_content_length")
        \cup Of(analysis_results.content_performance, "best_content_types")
        \cup Of(analysis_results.timing_patterns, "optimal_hours")

\* C18: for a platform that the learned data do not hold,
\* apply_learned_optimizations returns optimal_length [100, 200], content_style
\* "general" and recommended keywords taken from the global keyword list only
C18_Defaults ==
    \A platform \in Range(Platforms) \ Learned :
        LET optimizations ==
                apply_learned_optimizations(lmem, "general", platform)
            analysis_results ==
                IF lmem.analysis_results = <<>> THEN NoAnalysis
                ELSE lmem.analysis_results[1]
        IN  /\ optimizations.optimal_length =
                   [none |-> FALSE, range |-> <<100, 200>>]
            /\ optimizations.content_style = "general"
            /\ Range(optimizations.recommended_keywords) \subseteq
                   Range(Get(analysis_results.content_performance,
                             "high_performing_keywords", <<>>))

-----------------------------------------------------------------------------
(* The helpers of the learning module, each called once on an argument      *)
(* drawn from a small set                                                   *)

MaxSequences == 3

\* customer journeys: the interaction types of a customer, in time order
Journeys ==
    LET A == "inquiry"
        B == "message_sent"
        C == "objection_handled"
        D == "follow_up_message"
    IN  {<<>>, <<A>>, <<A, B>>, <<B, A>>, <<A, B, C>>, <<A, B, D>>,
         <<A, B, A, B>>, <<A, B, C, D>>, <<A, B, C, D, A>>}

PatternCalls ==
    {[fn |-> "_find_common_patterns", arg |-> sequences, result |-> <<>>] :
        sequences \in SeqsUpTo(Journeys, MaxSequences)}

\* self._find_common_patterns(sequences)
FindCommonPatterns ==
    /\ call.fn = "_find_common_patterns"
    /\ call.result = <<>>
    /\ call' = [call EXCEPT !.result = <<_find_common_patterns(call.arg)>>]
    /\ UNCHANGED <<now, storeVars, dbready, scan, taskVars, reportVars, learnVars>>

\* the texts of posts
Texts ==
    {"", "hello", "Buy now", "How to buy?", "Why?", "what is new", "?",
     "Thank you for the help", "thanks", "New launch", "special OFFER: new guide",
     "any questions", "grateful for the update"}

ContentCalls ==
    {[fn |-> "_categorize_content", arg |-> content, result |-> <<>>] :
        content \in Texts}

\* self._categorize_content(content)
CategorizeContent ==
    /\ call.fn = "_categorize_content"
    /\ call.result = <<>>
    /\ call' = [call EXCEPT !.result = <<_categorize_content(call.arg)>>]
    /\ UNCHANGED <<now, storeVars, dbready, scan, taskVars, reportVars, learnVars>>

\* the days of the clock of a windower call, from 2024-01-01 on
MaxDay == 400

\* period names that are none of daily, weekly and monthly
OtherPeriods == {"hourly", "yearly", "Daily", ""}

RangeCalls ==
    {[fn |-> "_get_date_range", arg |-> period, result |-> <<>>] :
        period \in {"daily", "weekly", "monthly"} \cup OtherPeriods}

\* self._get_date_range(period), with datetime.utcnow() read from the clock
GetDateRange ==
    /\ call.fn = "_get_date_range"
    /\ call.result = <<>>
    /\ call' = [call EXCEPT !.result = <<_get_date_range(call.arg, now)>>]
    /\ UNCHANGED <<now, storeVars, dbready, scan, taskVars, reportVars, learnVars>>

HelperInit ==
    /\ EmptyStore
    /\ dbready = FALSE
    /\ IdleCalls
    /\ NoTasks
    /\ \/ now = 0 /\ call \in PatternCalls \cup ContentCalls
       \/ now \in 0..(MaxDay * TicksPerDay) /\ call \in RangeCalls

HelperNext ==
    \/ FindCommonPatterns
    \/ CategorizeContent
    \/ GetDateRange

SpecHelpers == HelperInit /\ [][HelperNext]_vars

\* the number of places where pattern occurs in the sequences as a run of
\* adjacent items
Occurrences(pattern, sequences) ==
    Cardinality({<<s, i>> \in (DOMAIN sequences) \X (1..5) :
                    /\ i + Len(pattern) - 1 <= Len(sequences[s])
                    /\ SubSeq(sequences[s], i, i + Len(pattern) - 1) = pattern})

\* C19: _find_common_patterns reports only runs of 2 to 4 adjacent items that
\* occur at least twice across the sequences, five at most and in descending
\* frequency, each with its number of occurrences as frequency and
\* occurrences / number of sequences * 100 as percentage; for
\* [[A,B,C],[A,B,D],[A,B,C]] it reports (A,B) with frequency 3 and percentage
\* 100, and for no sequences it reports nothing
C19_CommonPatterns ==
    (call.fn = "_find_common_patterns" /\ call.result # <<>>) =>
        LET sequences == call.arg
            found == call.result[1]
            ABC == <<"inquiry", "message_sent", "objection_handled">>
            ABD == <<"inquiry", "message_sent", "follow_up_message">>
        IN  /\ Len(found) <= 5
            /\ \A i \in DOMAIN found :
                  /\ Len(found[i].pattern) \in 2..4
                  /\ found[i].frequency = Occurrences(found[i].pattern, sequences)
                  /\ found[i].frequency >= 2
                  /\ found[i].percentage.num * Len(sequences)
                        = 100 * found[i].frequency * found[i].percentage.den
                  /\ \A j \in DOMAIN found :
                        i < j => found[i].frequency >= found[j].frequency
            /\ sequences = <<>> => found = <<>>
            /\ sequences = <<ABC, ABD, ABC>> =>
                  \E i \in DOMAIN found :
                      /\ found[i].pattern = <<"inquiry", "message_sent">>
                      /\ found[i].frequency = 3
                      /\ found[i].percentage.num = 100 * found[i].percentage.den

\* two journeys of five steps: nine runs occur twice and five are reported
C19_Witness ==
    /\ call.fn = "_find_common_patterns"
    /\ Len(call.arg) = 2
    /\ call.arg[1] = call.arg[2]
    /\ Len(call.arg[1]) = 5
    /\ call.result # <<>>
    /\ Len(call.result[1]) = 5
    /\ \A i \in 1..5 : call.result[1][i].frequency = 2

\* the keyword sets of the categories, in the order they are tried
Categories ==
    <<[name |-> "promotional",
       words |-> {"buy", "purchase", "sale", "offer", "discount"}],
      [name |-> "educational", words |-> {"how", "why", "what", "guide", "tip"}],
      [name |-> "question", words |-> {"?", "question", "ask", "help"}],
      [name |-> "appreciation", words |-> {"thank", "appreciate", "grateful"}],
      [name |-> "announcement", words |-> {"new", "update", "announce", "launch"}]>>

\* the categories with a keyword in the text, whatever the case of its letters
Matching(text) ==
    {i \in DOMAIN Categories :
        \E word \in Categories[i].words : Contains(word, lower(text))}

\* C20: _categorize_content returns one of promotional, educational, question,
\* appreciation, announcement and general, the category of the first keyword
\* set, in this order, with a keyword in the text: promotional for a text with
\* a promotional keyword whatever else is in it, educational for a text with
\* an educational keyword and a "?" (and no promotional keyword), general for a
\* text with no keyword at all
C20_FirstMatch ==
    (call.fn = "_categorize_content" /\ call.result # <<>>) =>
        LET text == call.arg
            category == call.result[1]
            matching == Matching(text)
        IN  /\ category \in {Categories[i].name : i \in DOMAIN Categories}
                               \cup {"general"}
            /\ matching = {} <=> category = "general"
            /\ \A i \in matching :
                  (\A j \in matching : i <= j) => category = Categories[i].name
            /\ 1 \in matching => category = "promotional"
            /\ (2 \in matching /\ Contains("?", text) /\ 1 \notin matching)
                  => category = "educational"

\* "Why?" holds an educational keyword and a question mark and is educational
C20_Witness ==
    /\ call.fn = "_categorize_content"
    /\ call.arg = "Why?"
    /\ call.result = <<"educational">>
    /\ {2, 3} \subseteq Matching(call.arg)

-----------------------------------------------------------------------------
(* The windows of _get_date_range                                           *)

\* a windower call that has returned
Ranged(period) ==
    call.fn = "_get_date_range" /\ call.arg = period /\ call.result # <<>>

\* the day of the week of a calendar date by Zeller's congruence: 0 is
\* Saturday, 2 is Monday
Zeller(date) ==
    LET m == IF date.month < 3 THEN date.month + 12 ELSE date.month
        y == IF date.month < 3 THEN date.year - 1 ELSE date.year
    IN  (date.day + ((13 * (m + 1)) \div 5) + (y % 100) + ((y % 100) \div 4)
         + ((y \div 100) \div 4) + 5 * (y \div 100)) % 7

\* C21: for every now, the weekly window starts at 00:00:00.000000 of the
\* most recent Monday on or before now, ends exactly 7 days after its start
\* and contains now
C21_WeeklyWindow ==
    Ranged("weekly") =>
        LET start_date == call.result[1][1]
            end_date == call.result[1][2]
        IN  /\ start_date % TicksPerDay = 0
            /\ Zeller(DateOf(start_date \div TicksPerDay)) = 2
            /\ end_date = start_date + 7 * TicksPerDay
            /\ start_date <= now /\ now < end_date

\* Sunday 2024-03-03, after midnight: the week started on Monday 2024-02-26
C21_Witness ==
    /\ Ranged("weekly")
    /\ now % TicksPerDay > 0
    /\ DateOf(now \div TicksPerDay) = [year |-> 2024, month |-> 3, day |-> 3]
    /\ DateOf(call.result[1][1] \div TicksPerDay)
          = [year |-> 2024, month |-> 2, day |-> 26]

\* C22: for every now, the monthly window starts at midnight of the first day
\* of now's month and ends at midnight of the first day of the following
\* month; for a now in December the end has year + 1 and month 1
C22_MonthlyWindow ==
    Ranged("monthly") =>
        LET start_date == call.result[1][1]
            end_date == call.result[1][2]
            today == DateOf(now \div TicksPerDay)
            first == DateOf(start_date \div TicksPerDay)
            next == DateOf(end_date \div TicksPerDay)
        IN  /\ start_date % TicksPerDay = 0
            /\ end_date % TicksPerDay = 0
            /\ first = [year |-> today.year, month |-> today.month, day |-> 1]
            /\ next.day = 1
            /\ today.month = 12 =>
                  next.year = today.year + 1 /\ next.month = 1
            /\ today.month # 12 =>
                  next.year = today.year /\ next.month = today.month + 1

\* the last tick of 2024-12-31: the window ends on 2025-01-01
C22_Witness ==
    /\ Ranged("monthly")
    /\ now % TicksPerDay > 0
    /\ DateOf(now \div TicksPerDay) = [year |-> 2024, month |-> 12, day |-> 31]
    /\ DateOf(call.result[1][2] \div TicksPerDay)
          = [year |-> 2025, month |-> 1, day |-> 1]

\* C23: for a period name that is none of daily, weekly and monthly the
\* windower returns, for the same now, the range it returns for daily, and
\* raises nothing
C23_DefaultsToDaily ==
    (call.fn = "_get_date_range" /\ call.arg \in OtherPeriods) =>
        /\ ENABLED GetDateRange \/ call.result # <<>>
        /\ call.result # <<>> =>
              /\ call.result[1] = _get_date_range("daily", now)
              /\ call.result[1][1] = (now \div TicksPerDay) * TicksPerDay
              /\ call.result[1][2] = call.result[1][1] + TicksPerDay

\* "Daily", with a capital letter, is an unknown name and gives today's range
C23_Witness ==
    /\ Ranged("Daily")
    /\ now = 3 * TicksPerDay + 1
    /\ call.result[1] = <<3 * TicksPerDay, 4 * TicksPerDay>>

-----------------------------------------------------------------------------
(* Timestamps that name their offset                                        *)

\* the hashes with every timestamp written with "Z" or "+00:00" written
\* without the suffix: the same UTC time
Unsuffixed(H) ==
    [key \in DOMAIN H |->
        [H[key] EXCEPT !.timestamp.kind = IF @ = "aware" THEN "naive" ELSE @]]

\* C24: a record whose timestamp is a valid UTC time written with "Z" or
\* "+00:00" is windowed like any other record and does not keep the other
\* records of the scan from being aggregated: every scan returns what it
\* returns for the same records with the suffix left out
C24_SuffixedWindowed ==
    LET plain == Unsuffixed(hashes)
        start_date == scan.start_date
        end_date == scan.end_date
        interactions == _get_interactions_in_period(dbready, plain, lists,
                                                    scan.platform, start_date, end_date)
        sales == _get_sales_data_in_period(dbready, plain, lists, start_date, end_date)
        leads == _get_lead_metrics(dbready, plain, lists, start_date, end_date)
    IN  /\ scan.op = "engagement" =>
              /\ scan.interactions.failed = interactions.failed
              /\ ItemKeys(scan.interactions.value) = ItemKeys(interactions.value)
        /\ scan.op = "sales" => scan.sales.value = sales.value
        /\ scan.op = "leads" => scan.leads.value = leads.value

-----------------------------------------------------------------------------
(* TwitterClient.post_tweet, called by the tasks of the orchestrator: the   *)
(* social scheduler and the sales scheduler.  One action for each stretch   *)
(* between two suspension points; the store answers every call.             *)

\* config.twitter_rate_limit, the posts allowed in a clock hour
RateLimit == 1

\* the calls of post_tweet of one task
MaxPosts == 2

Posters == {"social", "sales"}

\* datetime.now().strftime("%Y-%m-%d-%H")
current_hour == strftime(now) \o "-" \o Pad(ToString(hour(now)), 2)

\* int(current_count) if current_count else 0
CurrentCount(K, key) ==
    IF Doc(K, key) = <<>> \/ Doc(K, key) = <<"">> THEN 0
    ELSE ParseNat(Doc(K, key)[1])

\* DatabaseClient.incr(key)
incr(K, key) == set(K, key, ToString(CurrentCount(K, key) + 1), 0)

\* TwitterClient._check_rate_limit, and post_tweet returning None when the
\* limit of the hour is reached
PostCheck(task) ==
    LET rate_limit_key == "twitter_rate_limit:" \o current_hour
        current_count == CurrentCount(kv, rate_limit_key)
    IN  /\ tasks[task].pc = "idle"
        /\ tasks[task].calls < MaxPosts
        /\ tasks' = [tasks EXCEPT
                        ![task].calls = @ + 1,
                        ![task].pc = IF current_count >= RateLimit
                                     THEN "idle" ELSE "checked"]
        /\ UNCHANGED <<now, storeVars, dbready, scan, call, wire, reportVars,
                       learnVars>>

\* session.post: the platform answers 201 and the tweet is out, or it
\* answers another status and post_tweet returns None
PostSend(task) ==
    /\ tasks[task].pc = "checked"
    /\ \E status \in {201, 429} :
          /\ tasks' = [tasks EXCEPT
                          ![task].pc = IF status = 201 THEN "posted" ELSE "idle"]
          /\ wire' = IF status = 201 THEN Append(wire, current_hour) ELSE wire
    /\ UNCHANGED <<now, storeVars, dbready, scan, call, reportVars, learnVars>>

\* TwitterClient._increment_rate_limit
PostCount(task) ==
    LET rate_limit_key == "twitter_rate_limit:" \o current_hour
    IN  /\ tasks[task].pc = "posted"
        /\ tasks' = [tasks EXCEPT ![task].pc = "counted"]
        /\ kv' = set(incr(kv, rate_limit_key), rate_limit_key \o "_exp", "1", 7200)
        /\ UNCHANGED <<now, hashes, lists, dbready, scan, call, wire, reportVars,
                       learnVars>>

\* the interaction is logged and post_tweet returns the tweet
PostLog(task) ==
    LET interaction_key == "interaction:twitter:" \o ToString(now)
    IN  /\ tasks[task].pc = "counted"
        /\ tasks' = [tasks EXCEPT ![task].pc = "idle"]
        /\ hashes' = hset(hashes, interaction_key,
                          Rec("post_tweet", utcnow, Content("hello"), ""))
        /\ lists' = lpush(lists, "interactions:twitter", interaction_key)
        /\ UNCHANGED <<now, kv, dbready, scan, call, wire, reportVars, learnVars>>

PostInit ==
    /\ now = 0
    /\ EmptyStore
    /\ dbready = FALSE
    /\ IdleCalls
    /\ call = NoCall
    /\ tasks = [task \in Posters |-> [pc |-> "idle", calls |-> 0]]
    /\ wire = <<>>

PostNext ==
    \/ Tick
    \/ \E task \in Posters : PostCheck(task)
    \/ \E task \in Posters : PostSend(task)
    \/ \E task \in Posters : PostCount(task)
    \/ \E task \in Posters : PostLog(task)

SpecPost == PostInit /\ [][PostNext]_vars

\* C25: in no clock hour are more posts sent than the hourly limit allows,
\* also when the post calls of several tasks are interleaved between the
\* check, the HTTP post and the increment of the counter
C25_WithinLimit ==
    \A h \in Range(wire) :
        Cardinality({i \in DOMAIN wire : wire[i] = h}) <= RateLimit

-----------------------------------------------------------------------------
(* LocalStorageFallback.incr and lpush, called by tasks that run            *)
(* interleaved: each call reads the file of its key with get and writes it  *)
(* with set, and is suspended in between                                    *)

Callers == {"t1", "t2", "t3"}

\* the key of a call of the fallback store
FallbackKey(op) == IF op = "incr" THEN "twitter_rate_limit" ELSE "interactions:twitter"

\* current = await self.get(key)
FallbackRead(task) ==
    LET op == tasks[task].op
    IN  /\ tasks[task].pc = "start"
        /\ tasks' = [tasks EXCEPT
                        ![task].pc = "read",
                        ![task].current =
                            IF op = "incr"
                            THEN <<CurrentCount(kv, FallbackKey(op))>>
                            ELSE <<lrange(lists, FallbackKey(op))>>]
        /\ UNCHANGED <<now, storeVars, dbready, scan, call, wire, reportVars,
                       learnVars>>

\* await self.set(key, str(value + 1)), or set(key, list(values) + current)
FallbackWrite(task) ==
    LET op == tasks[task].op
        current == tasks[task].current[1]
    IN  /\ tasks[task].pc = "read"
        /\ tasks' = [tasks EXCEPT ![task].pc = "done"]
        /\ kv' = IF op = "incr"
                 THEN set(kv, FallbackKey(op), ToString(current + 1), 0)
                 ELSE kv
        /\ lists' = IF op = "lpush"
                    THEN [name \in DOMAIN lists \cup {FallbackKey(op)} |->
                             IF name = FallbackKey(op) THEN <<task>> \o current
                             ELSE lists[name]]
                    ELSE lists
        /\ UNCHANGED <<now, hashes, dbready, scan, call, wire, reportVars,
                       learnVars>>

FallbackInit ==
    /\ now = 0
    /\ EmptyStore
    /\ dbready = FALSE
    /\ IdleCalls
    /\ call = NoCall
    /\ wire = <<>>
    /\ tasks \in [Callers -> {[op |-> op, pc |-> "start", current |-> <<>>] :
                                 op \in {"incr", "lpush"}}]

FallbackNext ==
    \/ \E task \in Callers : FallbackRead(task)
    \/ \E task \in Callers : FallbackWrite(task)

SpecFallback == FallbackInit /\ [][FallbackNext]_vars

\* C26: on the fallback store no append and no increment is lost: when the
\* calls have completed, the list holds the value of every lpush call and the
\* counter equals the number of incr calls, whatever the interleaving
C26_NothingLost ==
    (\A task \in Callers : tasks[task].pc = "done") =>
        /\ Range(lrange(lists, "interactions:twitter"))
              = {task \in Callers : tasks[task].op = "lpush"}
        /\ CurrentCount(kv, "twitter_rate_limit")
              = Cardinality({task \in Callers : tasks[task].op = "incr"})

-----------------------------------------------------------------------------
(* The learning cycles over a store that may fail the write of the patterns *)

\* LearnFinish with the store failing the set of _save_patterns:
\* DatabaseClient.set logs the failure and returns False, _save_patterns
\* goes on and the summary is returned
LearnFinishUnsaved ==
    LET count == NextCycleCount(lmem)
        updated == [lmem EXCEPT
                       !.last_analysis = TS("naive", now),
                       !.analysis_results = <<lwork.analysis_results>>,
                       !.generated_insights = lwork.insights,
                       !.cycle_count = [kind |-> "int", v |-> count.v]]
    IN  /\ lpc = "finish"
        /\ count.error = "none"
        /\ lpc' = "done"
        /\ lmem' = updated
        /\ lresult' = Summarize(TS("naive", now), lwork.analysis_results,
                                lwork.insights)
        /\ UNCHANGED <<now, storeVars, dbready, scan, call, taskVars, reportVars,
                       lwork>>

OutageNext == LearnNext \/ LearnFinishUnsaved

SpecOutage == LearnInit /\ [][OutageNext]_vars

\* C27: whenever run_learning_cycle has returned a summary and no cycle is in
\* progress, the learning_patterns document of the store, decoded, is the
\* LearningPatterns in memory as JSON gives them back: the same cycle_count,
\* analysis_results and generated_insights, also after a failed store write
C27_PersistedIsMemory ==
    (lpc = "done" /\ lresult.kind = "summary") =>
        /\ Doc(kv, "learning_patterns") # <<>>
        /\ LET persisted == Doc(kv, "learning_patterns")[1]
               memory == json_patterns(lmem)
           IN  /\ persisted.cycle_count = memory.cycle_count
               /\ persisted.analysis_results = memory.analysis_results
               /\ persisted.generated_insights = memory.generated_insights

-----------------------------------------------------------------------------
(* The results of a learning cycle                                          *)

\* the platform has a record with a timestamp
Timestamped(platform) ==
    \E key \in Range(lrange(lists, "interactions:" \o platform)) :
        hgetall(hashes, key).timestamp.kind # "none"

\* C28: in the result of _analyze_timing_patterns the entry of a platform in
\* platform_specific_timing comes from the records of that platform only: for
\* a platform with no timestamped record hour_performance and day_performance
\* are empty, whatever the platforms analysed before it had
C28_OwnRecordsOnly ==
    (lresult.kind = "summary" /\ ~lresult.analysis_results.timing_patterns.empty) =>
        LET timing == lresult.analysis_results.timing_patterns.platform_specific_timing
        IN  \A i \in DOMAIN timing :
                ~Timestamped(timing[i].platform) =>
                    /\ timing[i].hour_performance = <<>>
                    /\ timing[i].day_performance = <<>>

\* C29: after a learning cycle, for every platform with a nonempty list of
\* optimal hours, timing_strategy[platform] of the stored strategy_updates is
\* the list of those hours: one element for each hour, in the same order, each
\* the decimal string of its hour
C29_TimingStrategy ==
    (/\ lpc = "done" /\ lresult.kind = "summary"
     /\ ~lresult.analysis_results.timing_patterns.empty) =>
        LET optimal_hours == lresult.analysis_results.timing_patterns.optimal_hours
            stored == Doc(kv, "strategy_updates")
        IN  \A i \in DOMAIN optimal_hours :
                optimal_hours[i].hours # <<>> =>
                    /\ stored # <<>>
                    /\ \E j \in DOMAIN stored[1].timing_strategy :
                          /\ stored[1].timing_strategy[j].platform
                                = optimal_hours[i].platform
                          /\ stored[1].timing_strategy[j].times
                                = [k \in DOMAIN optimal_hours[i].hours |->
                                      ToString(optimal_hours[i].hours[k])]

-----------------------------------------------------------------------------
(* The sales analysis over the records the sales writer logged              *)

\* the sales interactions logged before the analysis
MaxSteps == 4

\* what the sales handler logs: an inquiry, and the reply with a payment link
JourneySteps ==
    {<<"inquiry", From("twitter")>>, <<"payment_link_sent", Said("payment link")>>}

NoAnalysisYet == [fn |-> "_analyze_sales_patterns", arg |-> <<>>, result |-> <<>>]

\* await self._analyze_sales_patterns()
AnalyzeSales ==
    /\ call = NoAnalysisYet
    /\ call' = [call EXCEPT !.result = <<_analyze_sales_patterns(TRUE, hashes, lists)>>]
    /\ UNCHANGED <<now, storeVars, dbready, scan, taskVars, reportVars, learnVars>>

JourneyInit ==
    /\ now = 0
    /\ EmptyStore
    /\ dbready = TRUE
    /\ IdleCalls
    /\ NoTasks
    /\ call = NoAnalysisYet

JourneyNext ==
    \/ Tick /\ call = NoAnalysisYet
    \/ \E customer_id \in Customers, step \in JourneySteps :
          /\ call = NoAnalysisYet
          /\ Len(lrange(lists, "sales_interactions")) < MaxSteps
          /\ "sales_interaction:" \o customer_id \o ":" \o ToString(now)
                \notin DOMAIN hashes
          /\ _log_sales_interaction(step[1], customer_id, step[2],
                                    <<TRUE, TRUE, TRUE>>)
    \/ AnalyzeSales

SpecJourney == JourneyInit /\ [][JourneyNext]_vars

\* the journeys the analysis reconstructs from the store
ReconstructedJourneys ==
    SalesPatternLoop(hashes, Take(lrange(lists, "sales_interactions"), 101), 1,
                     [customer_journeys |-> <<>>, message_effectiveness |-> <<>>,
                      raised |-> FALSE]).customer_journeys

\* the customer logged an interaction of type a and, as the next one, an
\* interaction of type b
LoggedInOrder(customer_id, a, b) ==
    LET Own == {key \in DOMAIN hashes : hashes[key].customer_id = customer_id}
    IN  \E first \in Own, second \in Own :
            /\ hashes[first].type = a /\ hashes[second].type = b
            /\ hashes[first].timestamp.t < hashes[second].timestamp.t
            /\ \A key \in Own :
                  ~(/\ hashes[first].timestamp.t < hashes[key].timestamp.t
                    /\ hashes[key].timestamp.t < hashes[second].timestamp.t)

\* C30: every customer journey that _analyze_sales_patterns reconstructs lists
\* the interactions of the customer oldest first, so that a mined conversion
\* pattern (A, B) means that an interaction of type A was logged immediately
\* before one of type B
C30_Chronological ==
    (call.fn = "_analyze_sales_patterns" /\ call.result # <<>>) =>
        LET patterns ==
                call.result[1].customer_journey_patterns.common_conversion_paths
        IN  /\ \A i \in DOMAIN ReconstructedJourneys :
                  \A k \in 1..(Len(ReconstructedJourneys[i].journey) - 1) :
                      ReconstructedJourneys[i].journey[k].timestamp.t
                          <= ReconstructedJourneys[i].journey[k + 1].timestamp.t
            /\ \A i \in DOMAIN patterns :
                  Len(patterns[i].pattern) = 2 =>
                      \E customer_id \in Customers :
                          LoggedInOrder(customer_id, patterns[i].pattern[1],
                                        patterns[i].pattern[2])

=============================================================================
